---- MODULE Spec2Model ----
(***************************************************************************)
(* A model of the grid-trading repository: RiskManager, PositionManager,   *)
(* GridGenerator, OrderExecutor, GridStrategyController and the older      *)
(* GridStrategy of tempplate.py.                                           *)
(*                                                                         *)
(* Money and prices are integers (whole quote-currency units), quantities  *)
(* are counted in units of base_order_quantity, dates are day numbers.     *)
(***************************************************************************)
EXTENDS Integers, Sequences, FiniteSets, TLC

VARIABLES
    program,        \* which class of the repository this run drives
    today,          \* datetime.now().date(), as a day number
    risk,           \* the RiskManager object's fields
    risk_op,        \* the last RiskManager call made from outside and what it returned
    losing_calls,   \* record_trade_result calls with pnl < 0 since the last one with pnl >= 0
    n_recorded,     \* number of record_trade_result calls made so far
    params,         \* the arguments the ladder generators are applied to
    grid_levels,    \* the ladder in use: a list of levels sorted by price
    total_capital,  \* GridStrategyController.total_capital
    gen_call,       \* the last ladder-generator call and how it ended
    pm,             \* PositionManager.current_position
    bought_levels,  \* the set of bought levels kept by the class under test
    sold_levels,    \* its set of sold (level, price) pairs
    position,       \* the position counter kept by the controller and by GridStrategy
    tick,           \* the last execution call: its price, what it filled and recorded
    exited,         \* an exception nobody caught ended the process or its loop
    n_buy_fills,    \* buy fills so far
    n_sell_fills,   \* sell fills so far
    gs,             \* GridStrategy: adjusted center price and regime tracking
    ct,             \* the CycleTracker object's fields and the cycle objects it made
    ct_op,          \* the last CycleTracker call made from outside and how it ended
    regen_op,       \* the last should_regenerate_grid call made from outside
    volatility_history, \* VolatilityManager.volatility_history
    vol_op,         \* the last call of a VolatilityManager method
    disk,           \* the state file, its .tmp file and its latest backup
    saver           \* the position of the process that saves the state

riskVars == <<today, risk, risk_op, losing_calls, n_recorded>>
gridVars == <<params, grid_levels, total_capital, gen_call>>
tradeVars == <<pm, bought_levels, sold_levels, position, tick, exited,
               n_buy_fills, n_sell_fills, gs>>

cycleVars == <<ct, ct_op>>

volVars == <<volatility_history, vol_op>>
fileVars == <<disk, saver>>
vars == <<program, riskVars, gridVars, tradeVars, cycleVars, regen_op, volVars,
          fileVars>>

----------------------------------------------------------------------------
(* Bounds of the model *)

MaxTrades == 6      \* record_trade_result calls explored in SpecRisk
MaxDay == 1         \* day rollovers explored

MaxLevels == 6      \* largest configured level count given to the ladder generators
MaxFills == 3       \* buy fills after which GridStrategy is given no further kline
num_levels == 2     \* num_levels of GridStrategy's base parameters

Days == 0..MaxDay

(* Configuration values, at the defaults the code falls back to *)

risk_total_capital == 10000
daily_loss_limit_pct == 10
max_drawdown_pct == 15
max_consecutive_losses == 5

grid_spacing_bp == 50          \* grid_spacing_pct 0.5, in hundredths of a percent
capital_per_grid_pct == 10
cfg_levels == 4                \* the `levels` entry of the grid configuration
base_order_quantity == 1       \* one order's size, the unit quantities are counted in
grid_step_size == 500          \* GridStrategy's step in the fixed method

(* The pnl values fed to record_trade_result in SpecRisk *)
TradePnls == {-600, -100, 0, 300}

Abs(x) == IF x < 0 THEN -x ELSE x
Max(a, b) == IF a >= b THEN a ELSE b

----------------------------------------------------------------------------
(* RiskManager (src/strategy/risk_manager.py) *)

daily_loss_limit == (risk_total_capital * daily_loss_limit_pct) \div 100
max_drawdown_limit == (risk_total_capital * max_drawdown_pct) \div 100

RiskManager_init(now, enabled) ==
    [ daily_pnl |-> [d \in Days |-> 0],
      consecutive_losses |-> 0,
      current_drawdown |-> 0,
      max_drawdown_today |-> 0,
      emergency_stop_triggered |-> FALSE,
      last_reset_date |-> now,
      emergency_stop_enabled |-> enabled ]

\* A reset that would also lift the emergency stop.
reset_daily_tracking_lifting_stop(r, now) ==
    [r EXCEPT !.last_reset_date = now, !.max_drawdown_today = 0,
              !.emergency_stop_triggered = FALSE]

reset_daily_tracking(r, now) ==
    [r EXCEPT !.last_reset_date = now, !.max_drawdown_today = 0]

\* Returns the object and whether SystemExit was raised.
trigger_emergency_stop(r) ==
    IF r.emergency_stop_triggered
    THEN [risk |-> r, raised |-> FALSE]
    ELSE [risk |-> [r EXCEPT !.emergency_stop_triggered = TRUE], raised |-> TRUE]

daily_loss_breached(r, now) ==
    r.daily_pnl[now] < 0 /\ Abs(r.daily_pnl[now]) >= daily_loss_limit

\* The drawdown test with a strict comparison.
drawdown_breached_strictly(r) ==
    r.current_drawdown > 0 /\ r.current_drawdown > max_drawdown_limit

drawdown_breached(r) ==
    r.current_drawdown > 0 /\ r.current_drawdown >= max_drawdown_limit

\* An alert that would stop the process like the two hard limits do.
consecutive_losses_alert_stopping(r) ==
    trigger_emergency_stop(r)

\* The consecutive-loss branch only logs and prints.
consecutive_losses_alert(r) ==
    [risk |-> r, raised |-> FALSE]

check_risk_limits(r, now) ==
    IF ~r.emergency_stop_enabled
    THEN [risk |-> r, raised |-> FALSE]
    ELSE LET s1 == IF daily_loss_breached(r, now)
                   THEN trigger_emergency_stop(r)
                   ELSE [risk |-> r, raised |-> FALSE]
         IN  IF s1.raised THEN s1
             ELSE LET s2 == IF drawdown_breached(s1.risk)
                            THEN trigger_emergency_stop(s1.risk)
                            ELSE [risk |-> s1.risk, raised |-> FALSE]
                  IN  IF s2.raised THEN s2
                      ELSE IF s2.risk.consecutive_losses >= max_consecutive_losses
                           THEN consecutive_losses_alert(s2.risk)
                           ELSE s2

\* Loss tracking in which a profit is taken off the drawdown without a floor.
update_loss_tracking_unfloored(r, pnl) ==
    IF pnl < 0
    THEN [r EXCEPT !.consecutive_losses = @ + 1,
                   !.current_drawdown = @ + Abs(pnl),
                   !.max_drawdown_today = Max(@, r.current_drawdown + Abs(pnl))]
    ELSE [r EXCEPT !.consecutive_losses = 0,
                   !.current_drawdown = @ - pnl]

\* Loss tracking in which a winning trade leaves the losing streak in place.
update_loss_tracking_keeping_streak(r, pnl) ==
    IF pnl < 0
    THEN [r EXCEPT !.consecutive_losses = @ + 1,
                   !.current_drawdown = @ + Abs(pnl),
                   !.max_drawdown_today = Max(@, r.current_drawdown + Abs(pnl))]
    ELSE [r EXCEPT !.current_drawdown = Max(0, @ - pnl)]

update_loss_tracking(r, pnl) ==
    IF pnl < 0
    THEN [r EXCEPT !.consecutive_losses = @ + 1,
                   !.current_drawdown = @ + Abs(pnl),
                   !.max_drawdown_today = Max(@, r.current_drawdown + Abs(pnl))]
    ELSE [r EXCEPT !.consecutive_losses = 0,
                   !.current_drawdown = Max(0, @ - pnl)]

record_trade_result(r, pnl, now) ==
    LET r1 == IF now # r.last_reset_date THEN reset_daily_tracking(r, now) ELSE r
        r2 == [r1 EXCEPT !.daily_pnl[now] = @ + pnl]
    IN  check_risk_limits(update_loss_tracking(r2, pnl), now)

\* The early warning given only at the daily loss limit itself.
approaching_daily_loss_limit_at_limit(r, now) ==
    r.daily_pnl[now] < 0 /\ Abs(r.daily_pnl[now]) >= daily_loss_limit

\* 80% of the daily loss limit, compared without fractions.
approaching_daily_loss_limit(r, now) ==
    r.daily_pnl[now] < 0 /\ 10 * Abs(r.daily_pnl[now]) >= 8 * daily_loss_limit

\* Returns the object (the call may reset the daily tracking) and the verdict.
check_trade_allowed(r, now) ==
    IF r.emergency_stop_triggered THEN [risk |-> r, allowed |-> FALSE]
    ELSE IF r.consecutive_losses >= max_consecutive_losses
         THEN [risk |-> r, allowed |-> FALSE]
         ELSE LET r1 == IF now # r.last_reset_date
                        THEN reset_daily_tracking(r, now) ELSE r
              IN  [risk |-> r1, allowed |-> ~approaching_daily_loss_limit(r1, now)]

\* op: the method called; date: the day it ran on; pnl: its argument;
\* losing_before: the run of losing calls that preceded it;
\* allowed: check_trade_allowed's verdict; raised: whether it left by SystemExit.
NoRiskOp ==
    [op |-> "none", date |-> 0, pnl |-> 0, losing_before |-> 0,
     allowed |-> TRUE, raised |-> FALSE]

----------------------------------------------------------------------------
(* Ladder generation (src/strategy/grid_generator.py and the controller's  *)
(* generate_grid).  A spacing is held in hundredths of a percent, so the   *)
(* fraction spacing_pct of the code is bp / 10000.  None is written 0:     *)
(* the code tests the optional spacing with `or`, which treats both alike. *)

Centers == {-10000, 0, 9000, 10000}
Spacings == {-50, 0, 50, 5000}
\* client.get_account(): it fails, or reports the free USDT balance
NoAccount == [ok |-> FALSE, free |-> 0]
AccountOutcomes == {NoAccount, [ok |-> TRUE, free |-> 0], [ok |-> TRUE, free |-> 10000]}

level_price_mirrored(current_price, bp, k) == (current_price * (10000 - bp * k)) \div 10000

\* current_price * (1 + spacing_pct * k), k = -i for BUY and +i for SELL
level_price(current_price, bp, k) == (current_price * (10000 + bp * k)) \div 10000

\* list.sort(key = price): stable insertion of x behind the entries not above it
InsertByPrice(x, sorted) ==
    LET k == Cardinality({j \in 1..Len(sorted) : sorted[j].price <= x.price})
    IN  SubSeq(sorted, 1, k) \o <<x>> \o SubSeq(sorted, k + 1, Len(sorted))

RECURSIVE SortByPrice(_)
SortByPrice(s) ==
    IF s = <<>> THEN <<>>
    ELSE InsertByPrice(s[Len(s)], SortByPrice(SubSeq(s, 1, Len(s) - 1)))

\* The two append loops: BUY levels -1..-n, then SELL levels 1..n.
pending_levels(current_price, bp, n) ==
    [i \in 1..n |-> [price |-> level_price(current_price, bp, -i), side |-> "BUY",
                     level |-> -i, status |-> "pending"]]
    \o
    [i \in 1..n |-> [price |-> level_price(current_price, bp, i), side |-> "SELL",
                     level |-> i, status |-> "pending"]]

\* GridGenerator.generate_grid_levels: the returned list, or raised when the
\* log line indexes an empty list.
generate_grid_levels(current_price, volatility_adjusted_spacing, levels) ==
    LET spacing == IF volatility_adjusted_spacing # 0
                   THEN volatility_adjusted_spacing ELSE grid_spacing_bp
        grid == SortByPrice(pending_levels(current_price, spacing, levels \div 2))
    IN  [raised |-> grid = <<>>, returned |-> grid]

\* round(a / b, 0) for a >= 0 and b # 0, ties to the even neighbour
RoundDiv(a, b) ==
    LET d == Abs(b)
        q == a \div d
        r == a % d
        up == 2 * r > d \/ (2 * r = d /\ q % 2 = 1)
        m == IF up THEN q + 1 ELSE q
    IN  IF b < 0 THEN -m ELSE m

\* GridStrategyController.calculate_order_quantity; the quantity is in
\* millionths of the base asset (round(..., 6)).
calculate_order_quantity(tc, price, account) ==
    IF tc = 0 /\ ~account.ok
    THEN [raised |-> TRUE, total_capital |-> tc, quantity |-> 0]
    ELSE LET tc1 == IF tc = 0 THEN account.free ELSE tc
             capital_per_grid == (tc1 * capital_per_grid_pct) \div 100
         IN  IF price = 0
             THEN [raised |-> TRUE, total_capital |-> tc1, quantity |-> 0]
             ELSE [raised |-> FALSE, total_capital |-> tc1,
                   quantity |-> RoundDiv(capital_per_grid * 1000000, price)]

\* The controller's append loops, each entry priced by calculate_order_quantity;
\* the first call that raises ends the loops.
RECURSIVE quantified_levels(_, _, _, _)
quantified_levels(todo, tc, account, done) ==
    IF todo = <<>>
    THEN [raised |-> FALSE, total_capital |-> tc, levels |-> done]
    ELSE LET q == calculate_order_quantity(tc, Head(todo).price, account)
             lvl == [price |-> Head(todo).price, side |-> Head(todo).side,
                     level |-> Head(todo).level, quantity |-> q.quantity,
                     status |-> "pending"]
         IN  IF q.raised
             THEN [raised |-> TRUE, total_capital |-> q.total_capital, levels |-> done]
             ELSE quantified_levels(Tail(todo), q.total_capital, account,
                                    Append(done, lvl))

\* GridStrategyController.generate_grid: assigned tells whether self.grid_levels
\* was replaced before the method ended.
generate_grid(tc, center_price, grid_spacing_pct, levels, account) ==
    LET built == quantified_levels(
                     pending_levels(center_price, grid_spacing_pct, levels \div 2),
                     tc, account, <<>>)
        grid == SortByPrice(built.levels)
    IN  IF built.raised
        THEN [raised |-> TRUE, assigned |-> FALSE, returned |-> <<>>,
              total_capital |-> built.total_capital]
        ELSE [raised |-> grid = <<>>, assigned |-> TRUE, returned |-> grid,
              total_capital |-> built.total_capital]

NoGenCall ==
    [fn |-> "none", center |-> 0, spacing |-> 0, levels |-> 0, account |-> NoAccount,
     capital_before |-> 0, raised |-> FALSE, returned |-> <<>>]

\* A caller holding a GridGenerator asks it for a ladder and keeps the result.
GenerateGridLevels(current_price, volatility_adjusted_spacing, levels) ==
    /\ LET res == generate_grid_levels(current_price, volatility_adjusted_spacing,
                                       levels)
       IN  /\ gen_call' = [fn |-> "generate_grid_levels", center |-> current_price,
                           spacing |-> IF volatility_adjusted_spacing # 0
                                       THEN volatility_adjusted_spacing
                                       ELSE grid_spacing_bp,
                           levels |-> levels, account |-> NoAccount,
                           capital_before |-> total_capital,
                           raised |-> res.raised, returned |-> res.returned]
           /\ grid_levels' = IF res.raised THEN grid_levels ELSE res.returned
    /\ UNCHANGED <<params, total_capital>>

\* GridStrategyController.generate_grid(adjusted_params)
GenerateGrid(center_price, grid_spacing_pct, levels, account) ==
    /\ LET res == generate_grid(total_capital, center_price, grid_spacing_pct,
                                levels, account)
       IN  /\ gen_call' = [fn |-> "generate_grid", center |-> center_price,
                           spacing |-> grid_spacing_pct, levels |-> levels,
                           account |-> account, capital_before |-> total_capital,
                           raised |-> res.raised, returned |-> res.returned]
           /\ grid_levels' = IF res.assigned THEN res.returned ELSE grid_levels
           /\ total_capital' = res.total_capital
    /\ UNCHANGED params

----------------------------------------------------------------------------
(* CycleTracker (src/analytics/cycle_tracker.py).  The cycle dictionaries   *)
(* are objects: ct.objects holds them, and ct.cycles and ct.current_cycle   *)
(* refer to them by their index, 0 standing for None.                       *)

MaxCycles == 2          \* start_new_cycle calls explored
MaxCycleFills == 3      \* record_order_fill calls explored

expected_profit_per_cycle_bp == 35   \* 0.35 %, in hundredths of a percent
daily_target_profit_milli == 4375    \* 4.375 %, in thousandths of a percent

FillSides == {"BUY", "SELL"}
FillPrices == {100, 110}
FillFees == {0, 1}
FeeAssets == {"USDT", "BNB"}

NoDailyStats ==
    [present |-> FALSE, cycles_completed |-> 0, gross_profit |-> 0, net_profit |-> 0,
     fees_paid |-> 0, target_cycles_met |-> 0, daily_target_met |-> FALSE]

\* __init__ assigns neither total_fees nor total_capital, which the methods
\* below read: has_total_fees and has_total_capital tell whether the
\* attribute exists.
CycleTracker_init ==
    [ objects |-> <<>>, cycles |-> <<>>, current_cycle |-> 0,
      daily_stats |-> [d \in Days |-> NoDailyStats],
      total_profit |-> 0, total_loss |-> 0, total_fees_paid |-> 0,
      losing_cycles |-> 0, winning_cycles |-> 0,
      max_drawdown |-> 0, current_drawdown |-> 0,
      has_total_fees |-> FALSE, total_fees |-> 0,
      has_total_capital |-> FALSE, total_capital |-> 0 ]

start_new_cycle(c, initial_price, levels) ==
    LET cycle == [start_price |-> initial_price, grid_levels |-> Len(levels),
                  orders_filled |-> 0, gross_profit |-> 0, fees_paid |-> 0,
                  net_profit |-> 0, profit_pct |-> 0, status |-> "active",
                  fills |-> <<>>]
    IN  [c EXCEPT !.objects = Append(@, cycle), !.current_cycle = Len(c.objects) + 1]

RECURSIVE SumValues(_, _)
SumValues(fills, side) ==
    IF fills = <<>> THEN 0
    ELSE (IF Head(fills).side = side THEN Head(fills).value ELSE 0)
         + SumValues(Tail(fills), side)

HasFill(fills, side) == \E i \in 1..Len(fills) : fills[i].side = side

\* Returns the object and whether the method was left by an exception: the
\* AttributeError of the missing total_capital, or the ZeroDivisionError of
\* one that is 0.  profit_pct is held in hundredths of a percent.
update_daily_stats(c, completed_cycle, now) ==
    LET d0 == IF c.daily_stats[now].present THEN c.daily_stats[now]
              ELSE [NoDailyStats EXCEPT !.present = TRUE]
        d1 == [d0 EXCEPT !.cycles_completed = @ + 1,
                         !.gross_profit = @ + completed_cycle.gross_profit,
                         !.net_profit = @ + completed_cycle.net_profit,
                         !.fees_paid = @ + completed_cycle.fees_paid,
                         !.target_cycles_met =
                             IF completed_cycle.profit_pct >= expected_profit_per_cycle_bp
                             THEN @ + 1 ELSE @]
        c1 == [c EXCEPT !.daily_stats[now] = d1]
    IN  IF ~c.has_total_capital \/ c.total_capital = 0
        THEN [ct |-> c1, raised |-> TRUE]
        ELSE [ct |-> [c1 EXCEPT !.daily_stats[now].daily_target_met =
                          d1.net_profit * 100000
                              >= daily_target_profit_milli * c.total_capital],
              raised |-> FALSE]

\* _complete_cycle: the cycle is appended to the history before the daily
\* statistics are updated, and current_cycle is reset after them.
complete_cycle(c, now) ==
    IF c.current_cycle = 0 THEN [ct |-> c, raised |-> FALSE]
    ELSE LET cur == c.current_cycle
             old == c.objects[cur]
             total_buy_value == SumValues(old.fills, "BUY")
             total_sell_value == SumValues(old.fills, "SELL")
             gross == total_sell_value - total_buy_value
             net == gross - old.fees_paid
             cycle == [old EXCEPT !.status = "completed",
                                  !.gross_profit = gross,
                                  !.net_profit = net,
                                  !.profit_pct = IF total_buy_value > 0
                                                 THEN (net * 10000) \div total_buy_value
                                                 ELSE @]
             c1 == IF net > 0
                   THEN [c EXCEPT !.total_profit = @ + net,
                                  !.winning_cycles = @ + 1,
                                  !.current_drawdown = 0]
                   ELSE [c EXCEPT !.total_loss = @ + Abs(net),
                                  !.losing_cycles = @ + 1,
                                  !.current_drawdown = @ + Abs(net),
                                  !.max_drawdown = Max(@, c.current_drawdown + Abs(net))]
             c2 == [c1 EXCEPT !.objects[cur] = cycle,
                              !.total_fees_paid = @ + old.fees_paid,
                              !.cycles = Append(@, cur)]
             upd == update_daily_stats(c2, cycle, now)
         IN  IF upd.raised THEN upd
             ELSE [ct |-> [upd.ct EXCEPT !.current_cycle = 0], raised |-> FALSE]

\* _check_cycle_completion
CycleTracker_check_cycle_completion(c, now) ==
    IF c.current_cycle = 0 THEN [ct |-> c, raised |-> FALSE]
    ELSE LET fills == c.objects[c.current_cycle].fills
         IN  IF HasFill(fills, "BUY") /\ HasFill(fills, "SELL")
             THEN complete_cycle(c, now)
             ELSE [ct |-> c, raised |-> FALSE]

\* total_fees is held in thousandths (maker_fee_pct 0.1 % of the fill's value).
record_order_fill(c, side, price, quantity, fee, fee_asset, now) ==
    IF c.current_cycle = 0 THEN [ct |-> c, raised |-> FALSE]
    ELSE LET cur == c.current_cycle
             fill_data == [side |-> side, price |-> price, quantity |-> quantity,
                           fee |-> fee, fee_asset |-> fee_asset,
                           value |-> price * quantity]
             c1 == [c EXCEPT !.objects[cur].fills = Append(@, fill_data),
                             !.objects[cur].orders_filled = @ + 1,
                             !.objects[cur].fees_paid = @ + fee]
         IN  IF fee_asset = "USDT" /\ ~c.has_total_fees
             THEN [ct |-> c1, raised |-> TRUE]
             ELSE CycleTracker_check_cycle_completion(
                      IF fee_asset = "USDT"
                      THEN [c1 EXCEPT !.total_fees = @ + price * quantity]
                      ELSE c1,
                      now)

\* The call cycle_tracker.check_cycle_completion(side, price, quantity) that
\* the executors make after a sell: CycleTracker has no method of that name,
\* so the call raises AttributeError and leaves the tracker as it was.
missing_check_cycle_completion(c, side, price, quantity) ==
    [ct |-> c, raised |-> TRUE]

\* op: the method called; cycle_before: current_cycle as the call found it;
\* history_before: how many entries the history held.
NoCycleOp ==
    [op |-> "none", side |-> "none", price |-> 0, fee_asset |-> "none",
     cycle_before |-> 0, history_before |-> 0, raised |-> FALSE]

----------------------------------------------------------------------------
(* PositionManager (src/position/position_manager.py) *)

\* fills: the PositionManager calls that went through, in order; recorded: the
\* pnl values handed to record_trade_result; gate_open: what
\* check_trade_allowed would have answered when the call began;
\* bought_before: bought_levels as the call found it.
\* opportunities: what get_trading_opportunities returned.
NoOpportunities == [buy |-> <<>>, sell |-> <<>>]

\* The controller holds no market data until get_historical has loaded some.
NoData == [loaded |-> FALSE, rows |-> 0, prev_close |-> 0, close |-> 0,
           true_range_mean |-> 0]

\* A file's content is 0 when the file does not exist, n > 0 when it holds the
\* complete JSON document of the n-th save, and -n when it holds an incomplete
\* one (from empty up to all but the last byte).
NoFiles == [file |-> 0, tmp |-> 0, backup |-> 0]
NoSaver == [pc |-> "idle", data |-> 0, saves |-> 0, returned |-> "none", loaded |-> 0]

NoTick ==
    [op |-> "none", price |-> 0, gate_open |-> TRUE, bought_before |-> {},
     fills |-> <<>>, recorded |-> <<>>, opportunities |-> NoOpportunities,
     data |-> NoData, pause_all |-> FALSE, failed |-> {}, skipped |-> {}]

NoPosition == [open |-> FALSE, buy_price |-> 0, quantity |-> 0]

PositionManager_buy(p, quantity, price) ==
    IF p.open
    THEN LET total_qty == p.quantity + quantity
         IN  [open |-> TRUE,
              buy_price |-> (p.buy_price * p.quantity + price * quantity) \div total_qty,
              quantity |-> total_qty]
    ELSE [open |-> TRUE, buy_price |-> price, quantity |-> quantity]

\* A sell that would not refuse to sell more than is held.
PositionManager_sell_unguarded(p, quantity, price) ==
    LET left == p.quantity - quantity
    IN  [raised |-> FALSE,
         pm |-> IF left = 0 THEN NoPosition ELSE [p EXCEPT !.open = TRUE, !.quantity = left]]

\* Raises ValueError when there is no position or less than asked is held.
PositionManager_sell(p, quantity, price) ==
    IF ~p.open \/ p.quantity < quantity
    THEN [raised |-> TRUE, pm |-> p]
    ELSE LET left == p.quantity - quantity
         IN  [raised |-> FALSE,
              pm |-> IF left = 0 THEN NoPosition ELSE [p EXCEPT !.quantity = left]]

----------------------------------------------------------------------------
(* OrderExecutor (src/strategy/order_executor.py) *)

\* What comes of one order: the client reports it FILLED, or it does not (it
\* reports another status or raises, which the loops treat alike: the level is
\* left as it was).
OrderOutcomes == {"FILLED", "REJECTED"}

\* How a call that sets the emergency stop ends: by SystemExit, or by the
\* TypeError of a logger that cannot serialise the date keys of daily_pnl.
StopExceptions == {"SystemExit", "TypeError"}

BuyIds == {-i : i \in 1..(cfg_levels \div 2)}
SellIds == {i : i \in 1..(cfg_levels \div 2)}

\* The objects one execution call works on, as the call finds them.  failed
\* and skipped collect the levels of an OrderExecutor call whose order was
\* placed and did not come back FILLED, and the SELL levels it passed over for
\* want of a position.
LoopState ==
    [pm |-> pm, bought |-> bought_levels, sold |-> sold_levels, risk |-> risk,
     position |-> position, ct |-> ct, fills |-> <<>>, recorded |-> <<>>,
     exited |-> FALSE, failed |-> {}, skipped |-> {}]

\* The buy condition without the test on bought_levels.
buy_ready_ignoring_bought(level, current_price, bought) ==
    level.side = "BUY" /\ current_price <= level.price

buy_ready(level, current_price, bought) ==
    /\ level.side = "BUY"
    /\ current_price <= level.price
    /\ level.level \notin bought

\* The sell condition without the test on sold_levels.
sell_ready_ignoring_sold(level, current_price, sold) ==
    level.side = "SELL" /\ current_price >= level.price

sell_ready(level, current_price, sold) ==
    /\ level.side = "SELL"
    /\ current_price >= level.price
    /\ <<level.level, level.price>> \notin sold

\* execute_buy_orders marking a level bought whatever came of its order.
execute_buy_level_marking_failed(st, level, current_price, outcome) ==
    IF ~buy_ready(level, current_price, st.bought) THEN st
    ELSE IF outcome # "FILLED"
    THEN [st EXCEPT !.failed = @ \cup {level.level},
                    !.bought = @ \cup {level.level}]
    ELSE [st EXCEPT !.pm = PositionManager_buy(@, base_order_quantity, level.price),
                    !.bought = @ \cup {level.level},
                    !.fills = Append(@, [side |-> "BUY", level |-> level.level,
                                         price |-> level.price])]

\* One iteration of the loop of execute_buy_orders.
execute_buy_level(st, level, current_price, outcome) ==
    IF ~buy_ready(level, current_price, st.bought) THEN st
    ELSE IF outcome # "FILLED"
    THEN [st EXCEPT !.failed = @ \cup {level.level}]
    ELSE [st EXCEPT !.pm = PositionManager_buy(@, base_order_quantity, level.price),
                    !.bought = @ \cup {level.level},
                    !.fills = Append(@, [side |-> "BUY", level |-> level.level,
                                         price |-> level.price])]

\* The position test of execute_sell_orders never finding too little.
insufficient_position_never(p) == FALSE

\* execute_sell_orders: no current position, or one smaller than an order.
insufficient_position(p) == ~p.open \/ p.quantity < base_order_quantity

\* One iteration of the loop of execute_sell_orders.  The pnl is taken
\* against the position that is left after the sale, so the sale that closes
\* the position records nothing.  The call to the cycle tracker comes last; it
\* raises and is caught with the level's other errors.
execute_sell_level(st, level, current_price, outcome, stop_exc, now) ==
    IF ~sell_ready(level, current_price, st.sold) THEN st
    ELSE IF insufficient_position(st.pm)
    THEN [st EXCEPT !.skipped = @ \cup {level.level}]
    ELSE IF outcome # "FILLED" THEN [st EXCEPT !.failed = @ \cup {level.level}]
    ELSE LET res == PositionManager_sell(st.pm, base_order_quantity, level.price)
             pair == <<level.level, level.price>>
             fill == [side |-> "SELL", level |-> level.level, price |-> level.price]
         IN  IF res.raised THEN st
             ELSE IF ~res.pm.open
             THEN [st EXCEPT !.pm = res.pm, !.fills = Append(@, fill),
                             !.sold = @ \cup {pair},
                             !.ct = missing_check_cycle_completion(
                                        @, "sell", level.price, base_order_quantity).ct]
             ELSE LET pnl == (level.price - res.pm.buy_price) * base_order_quantity
                      rec == record_trade_result(st.risk, pnl, now)
                  IN  [st EXCEPT !.pm = res.pm, !.fills = Append(@, fill),
                                 !.risk = rec.risk,
                                 !.recorded = Append(@, pnl),
                                 !.sold = IF rec.raised THEN @ ELSE @ \cup {pair},
                                 !.ct = IF rec.raised THEN @
                                        ELSE missing_check_cycle_completion(
                                                 @, "sell", level.price,
                                                 base_order_quantity).ct,
                                 !.exited = rec.raised /\ stop_exc = "SystemExit"]

RECURSIVE execute_buy_loop(_, _, _, _)
execute_buy_loop(st, levels, current_price, outcomes) ==
    IF levels = <<>> THEN st
    ELSE execute_buy_loop(
             execute_buy_level(st, Head(levels), current_price,
                               outcomes[Head(levels).level]),
             Tail(levels), current_price, outcomes)

RECURSIVE execute_sell_loop(_, _, _, _, _, _)
execute_sell_loop(st, levels, current_price, outcomes, stop_exc, now) ==
    IF levels = <<>> \/ st.exited THEN st
    ELSE execute_sell_loop(
             execute_sell_level(st, Head(levels), current_price,
                                outcomes[Head(levels).level], stop_exc, now),
             Tail(levels), current_price, outcomes, stop_exc, now)

buy_opportunity(level, current_price, bought) ==
    /\ level.side = "BUY"
    /\ current_price <= level.price
    /\ level.level \notin bought

\* The sell test of get_trading_opportunities without the look into sold_levels.
sell_opportunity_ignoring_sold(level, current_price, sold) ==
    level.side = "SELL" /\ current_price >= level.price

sell_opportunity(level, current_price, sold) ==
    /\ level.side = "SELL"
    /\ current_price >= level.price
    /\ <<level.level, level.price>> \notin sold

\* get_trading_opportunities: the two lists it builds in one pass over the
\* ladder.  An entry is the text "Level <id> @ $<price>", which a level's id
\* and price determine and which is held here as that pair.
RECURSIVE get_trading_opportunities(_, _, _, _, _)
get_trading_opportunities(levels, current_price, bought, sold, found) ==
    IF levels = <<>> THEN found
    ELSE LET level == Head(levels)
             entry == [level |-> level.level, price |-> level.price]
             found1 == IF buy_opportunity(level, current_price, bought)
                       THEN [found EXCEPT !.buy = Append(@, entry)]
                       ELSE IF sell_opportunity(level, current_price, sold)
                       THEN [found EXCEPT !.sell = Append(@, entry)]
                       ELSE found
         IN  get_trading_opportunities(Tail(levels), current_price, bought, sold,
                                       found1)

----------------------------------------------------------------------------
(* GridStrategyController (src/strategy/grid_strategy_controller.py) *)

\* One iteration of the loop of _execute_buy_orders.
controller_buy_level(st, level, current_price, outcome) ==
    IF buy_ready(level, current_price, st.bought) /\ outcome = "FILLED"
    THEN [st EXCEPT !.pm = PositionManager_buy(@, base_order_quantity, level.price),
                    !.bought = @ \cup {level.level},
                    !.position = @ + base_order_quantity,
                    !.fills = Append(@, [side |-> "BUY", level |-> level.level,
                                         price |-> level.price])]
    ELSE st

\* One iteration of the loop of _execute_sell_orders.  The call to the cycle
\* tracker that follows the bookkeeping raises and is caught; it changes nothing.
controller_sell_level(st, level, current_price, outcome) ==
    IF ~sell_ready(level, current_price, st.sold) THEN st
    ELSE IF st.position < base_order_quantity THEN st
    ELSE IF outcome # "FILLED" THEN st
    ELSE LET res == PositionManager_sell(st.pm, base_order_quantity, level.price)
         IN  IF res.raised THEN st
             ELSE [st EXCEPT !.pm = res.pm,
                             !.sold = @ \cup {<<level.level, level.price>>},
                             !.position = @ - base_order_quantity,
                             !.ct = missing_check_cycle_completion(
                                        @, "sell", level.price, base_order_quantity).ct,
                             !.fills = Append(@, [side |-> "SELL", level |-> level.level,
                                                  price |-> level.price])]

RECURSIVE controller_buy_loop(_, _, _, _)
controller_buy_loop(st, levels, current_price, outcomes) ==
    IF levels = <<>> THEN st
    ELSE controller_buy_loop(
             controller_buy_level(st, Head(levels), current_price, outcomes["BUY"]),
             Tail(levels), current_price, outcomes)

RECURSIVE controller_sell_loop(_, _, _, _)
controller_sell_loop(st, levels, current_price, outcomes) ==
    IF levels = <<>> THEN st
    ELSE controller_sell_loop(
             controller_sell_level(st, Head(levels), current_price, outcomes["SELL"]),
             Tail(levels), current_price, outcomes)

----------------------------------------------------------------------------
(* VolatilityManager *)

atr_period == 14
pause_volatility_pct == 12
pause_move_pct == 5

\* A data frame is the number of its rows, its last two closes and the mean of
\* the true range over its last atr_period rows.
calculate_atr(df) ==
    IF df.rows < atr_period + 1 THEN 0 ELSE df.true_range_mean

\* The ratio ATR / close as a fraction, so that the comparison with a
\* percentage is exact.
calculate_volatility_ratio(df) ==
    IF df.rows = 0 \/ df.close <= 0 THEN [num |-> 0, den |-> 1]
    ELSE [num |-> calculate_atr(df), den |-> df.close]

\* should_pause_trading pausing from the threshold on.
should_pause_trading_at_threshold(df) ==
    IF df.rows = 0 THEN [pause_all |-> FALSE]
    ELSE LET volatility_ratio == calculate_volatility_ratio(df)
         IN  [pause_all |->
                 \/ 100 * volatility_ratio.num >= pause_volatility_pct * volatility_ratio.den
                 \/ /\ df.rows >= 2
                    /\ 100 * Abs(df.close - df.prev_close) >= pause_move_pct * df.prev_close]

should_pause_trading(df) ==
    IF df.rows = 0 THEN [pause_all |-> FALSE]
    ELSE LET volatility_ratio == calculate_volatility_ratio(df)
         IN  [pause_all |->
                 \/ 100 * volatility_ratio.num > pause_volatility_pct * volatility_ratio.den
                 \/ /\ df.rows >= 2
                    /\ 100 * Abs(df.close - df.prev_close) > pause_move_pct * df.prev_close]

\* Thresholds in thousandths of the close, multipliers in hundredths.
volatility_thresholds ==
    [very_low |-> 15, low |-> 25, normal |-> 40, high |-> 60, very_high |-> 80]
spacing_multipliers ==
    [very_low |-> 70, low |-> 85, normal |-> 100, high |-> 130, very_high |-> 160]
position_multipliers ==
    [very_low |-> 110, low |-> 100, normal |-> 100, high |-> 80, very_high |-> 60]
volatility_history_kept == 100

\* classify_volatility_regime with thresholds that must be exceeded.
classify_volatility_regime_above(volatility_ratio) ==
    LET Above(regime) == 1000 * volatility_ratio.num
                             > volatility_thresholds[regime] * volatility_ratio.den
    IN  IF Above("very_high") THEN "very_high"
        ELSE IF Above("high") THEN "high"
        ELSE IF Above("normal") THEN "normal"
        ELSE IF Above("low") THEN "low"
        ELSE "very_low"

classify_volatility_regime(volatility_ratio) ==
    LET Reaches(regime) == 1000 * volatility_ratio.num
                               >= volatility_thresholds[regime] * volatility_ratio.den
    IN  IF Reaches("very_high") THEN "very_high"
        ELSE IF Reaches("high") THEN "high"
        ELSE IF Reaches("normal") THEN "normal"
        ELSE IF Reaches("low") THEN "low"
        ELSE "very_low"

\* get_adjusted_grid_params: the history after the call and the returned
\* dictionary.  The adjusted values are the base values times a multiplier in
\* hundredths, so they are in hundredths of the base values' unit; the history
\* entry's timestamp is left out.
get_adjusted_grid_params(history, base_spacing_pct, base_position_size, df) ==
    LET volatility_ratio == calculate_volatility_ratio(df)
        regime == classify_volatility_regime(volatility_ratio)
        spacing_multiplier == spacing_multipliers[regime]
        position_multiplier == position_multipliers[regime]
        entry == [volatility_ratio |-> volatility_ratio, regime |-> regime,
                  spacing_multiplier |-> spacing_multiplier,
                  position_multiplier |-> position_multiplier]
        appended == Append(history, entry)
    IN  [history |-> IF Len(appended) > volatility_history_kept
                     THEN Tail(appended) ELSE appended,
         returned |-> [adjusted_spacing_pct |-> base_spacing_pct * spacing_multiplier,
                       adjusted_position_size |-> base_position_size * position_multiplier,
                       volatility_ratio |-> volatility_ratio,
                       regime |-> regime,
                       spacing_multiplier |-> spacing_multiplier,
                       position_multiplier |-> position_multiplier]]

NoVolOp ==
    [op |-> "none", df |-> NoData, volatility_ratio |-> [num |-> 0, den |-> 1],
     regime |-> "none", adjusted_spacing_pct |-> 0, adjusted_position_size |-> 0]

----------------------------------------------------------------------------

\* One pass of the body of polling_loop.  current_price is 0 when the ticker
\* could not be fetched; pause_all is the answer of should_pause_trading, FALSE
\* when the controller holds no market data.  The opportunities are listed
\* before any order is placed.
polling_cycle(st, levels, current_price, outcomes, pause_all) ==
    IF levels = <<>> \/ pause_all THEN st
    ELSE LET buy_opportunities ==
                 \E i \in 1..Len(levels) : buy_ready(levels[i], current_price, st.bought)
             sell_opportunities ==
                 \E i \in 1..Len(levels) : sell_ready(levels[i], current_price, st.sold)
             st1 == IF buy_opportunities
                    THEN controller_buy_loop(st, levels, current_price, outcomes)
                    ELSE st
         IN  IF sell_opportunities
             THEN controller_sell_loop(st1, levels, current_price, outcomes)
             ELSE st1

----------------------------------------------------------------------------
(* GridStrategy (tempplate.py) *)

Regimes == {"bullish", "bearish", "sideways"}
RsiExtremes == {"none", "oversold"}

\* A regime strength is held in tenths: it is the count of detect_regime's
\* ten tests that came out true.
regime_change_threshold_tenths == 3
strength_history_kept == 10

GridStrategy_init ==
    [center_price |-> 0, current_regime |-> "none", regime_strength_history |-> <<>>,
     grid_generated |-> FALSE, force_regenerate |-> FALSE]

\* forced: the force flag as the call found it; previous_forced: the same for
\* the call before it.
NoRegenOp ==
    [new_regime |-> "none", new_strength |-> 0, returned |-> FALSE,
     forced |-> FALSE, previous_forced |-> FALSE]

\* int(x * num / 10) for the multipliers 1.5, 0.7 and 0.8
Tenths(x, num) == (x * num) \div 10

adjust_grid(c, regime, rsi_extreme) ==
    LET bp == CASE regime = "bullish" ->
                     [center_price |-> (c * 98) \div 100,
                      grid_step_size |-> Tenths(grid_step_size, 12),
                      buy_levels |-> Tenths(num_levels, 15),
                      sell_levels |-> Tenths(num_levels, 7)]
                [] regime = "bearish" ->
                     [center_price |-> (c * 102) \div 100,
                      grid_step_size |-> Tenths(grid_step_size, 12),
                      buy_levels |-> Tenths(num_levels, 7),
                      sell_levels |-> Tenths(num_levels, 15)]
                [] OTHER ->
                     [center_price |-> c,
                      grid_step_size |-> Tenths(grid_step_size, 8),
                      buy_levels |-> num_levels,
                      sell_levels |-> num_levels]
        b1 == IF rsi_extreme = "overbought"
              THEN [bp EXCEPT !.sell_levels = Tenths(@, 8)] ELSE bp
    IN  IF rsi_extreme = "oversold"
        THEN [b1 EXCEPT !.buy_levels = Tenths(@, 8)] ELSE b1

\* list.sort() on a list of prices
RECURSIVE SortPrices(_)
SortPrices(s) ==
    IF s = <<>> THEN <<>>
    ELSE LET rest == SortPrices(SubSeq(s, 1, Len(s) - 1))
             x == s[Len(s)]
             k == Cardinality({j \in 1..Len(rest) : rest[j] <= x})
         IN  SubSeq(rest, 1, k) \o <<x>> \o SubSeq(rest, k + 1, Len(rest))

\* sorted(a set of prices)
RECURSIVE SortedSet(_)
SortedSet(S) ==
    IF S = {} THEN <<>>
    ELSE LET m == CHOOSE x \in S : \A y \in S : x <= y
         IN  <<m>> \o SortedSet(S \ {m})

GridStrategy_generate_grid(ap) ==
    SortPrices([i \in 1..ap.buy_levels |-> ap.center_price - i * ap.grid_step_size]
               \o
               [i \in 1..ap.sell_levels |-> ap.center_price + i * ap.grid_step_size])

RECURSIVE SumSeq(_)
SumSeq(s) == IF s = <<>> THEN 0 ELSE Head(s) + SumSeq(Tail(s))

\* The strength test read from the 4th reading on.
strength_change_detected_from_4(history, new_strength) ==
    /\ Len(history) >= 4
    /\ LET last5 == SubSeq(history, Max(1, Len(history) - 4), Len(history))
       IN  Abs(5 * new_strength - SumSeq(last5)) > 5 * regime_change_threshold_tenths

\* abs(new_strength - sum(history[-5:]) / 5) > regime_change_threshold, with
\* both sides multiplied by 5
strength_change_detected(history, new_strength) ==
    /\ Len(history) >= 5
    /\ LET last5 == SubSeq(history, Len(history) - 4, Len(history))
       IN  Abs(5 * new_strength - SumSeq(last5)) > 5 * regime_change_threshold_tenths

\* A decision that would leave the force flag set.
should_regenerate_grid_keeping_flag(g, new_regime, new_strength) ==
    [gs |-> g,
     returned |-> \/ g.force_regenerate
                  \/ ~g.grid_generated
                  \/ (g.current_regime # "none" /\ new_regime # g.current_regime)
                  \/ strength_change_detected(g.regime_strength_history, new_strength)]

\* Returns the object (the call clears the force flag) and the decision.
should_regenerate_grid(g, new_regime, new_strength) ==
    IF g.force_regenerate
    THEN [gs |-> [g EXCEPT !.force_regenerate = FALSE], returned |-> TRUE]
    ELSE [gs |-> g,
          returned |-> \/ ~g.grid_generated
                       \/ (g.current_regime # "none" /\ new_regime # g.current_regime)
                       \/ strength_change_detected(g.regime_strength_history,
                                                   new_strength)]

update_regime_tracking(g, regime, strength) ==
    LET h == Append(g.regime_strength_history, strength)
    IN  [g EXCEPT !.current_regime = regime,
                  !.regime_strength_history =
                      IF Len(h) > strength_history_kept THEN Tail(h) ELSE h]

\* price <= lvl + center * 0.001 and price >= target - center * 0.001,
\* compared without fractions
within_buy_tolerance(price, lvl, center) == 1000 * price <= 1000 * lvl + center
within_sell_tolerance(price, target, center) == 1000 * price >= 1000 * target - center

\* The BUY condition without the test on bought_levels.
buy_level_hit_ignoring_bought(lvl, center, price, bought) ==
    lvl < center /\ within_buy_tolerance(price, lvl, center)

\* lvl < center_price and price <= (lvl + price_tolerance) and
\* lvl not in self.bought_levels
buy_level_hit(lvl, center, price, bought) ==
    /\ lvl < center
    /\ within_buy_tolerance(price, lvl, center)
    /\ lvl \notin bought

\* The BUY loop of execute_grid_trades.
RECURSIVE grid_buy_loop(_, _, _, _, _)
grid_buy_loop(st, levels, center, price, outcome) ==
    IF levels = <<>> THEN st
    ELSE LET lvl == Head(levels)
             hit == buy_level_hit(lvl, center, price, st.bought)
             st1 == IF hit /\ outcome = "FILLED"
                    THEN [st EXCEPT !.bought = @ \cup {lvl},
                                    !.position = @ + base_order_quantity,
                                    !.fills = Append(@, [side |-> "BUY", level |-> lvl,
                                                         price |-> price])]
                    ELSE st
         IN  grid_buy_loop(st1, Tail(levels), center, price, outcome)

\* The sell target taken from the far end of the ladder.
sell_target_highest(levels, higher) ==
    levels[CHOOSE i \in higher : \A j \in higher : i >= j]

\* higher_levels[0]: the first entry of the ladder among those above the
\* bought level, whose positions are `higher`.
higher_levels_first(levels, higher) ==
    levels[CHOOSE i \in higher : \A j \in higher : i <= j]

\* The partial-sell limit of one execution cycle.
max_sells == 1

\* sells_this_cycle: the sales of the call so far.
sells_this_cycle(st) ==
    Cardinality({i \in 1..Len(st.fills) : st.fills[i].side = "SELL"})

\* A sell loop that is never cut short.
sell_limit_never_reached(sells) == FALSE

\* if sells_this_cycle >= max_sells: break
sell_limit_reached(sells) == sells >= max_sells

\* The SELL loop of execute_grid_trades, over the bought levels as they stood
\* when the loop began, lowest first; it ends once max_sells sales are made.
RECURSIVE grid_sell_loop(_, _, _, _, _, _)
grid_sell_loop(st, todo, levels, center, price, outcome) ==
    IF todo = <<>> \/ sell_limit_reached(sells_this_cycle(st)) THEN st
    ELSE LET bought_lvl == Head(todo)
             higher == {i \in 1..Len(levels) : levels[i] > bought_lvl}
             sell_target == higher_levels_first(levels, higher)
         IN  IF higher = {}
             THEN grid_sell_loop(st, Tail(todo), levels, center, price, outcome)
             ELSE IF /\ within_sell_tolerance(price, sell_target, center)
                     /\ <<bought_lvl, sell_target>> \notin st.sold
                     /\ outcome = "FILLED"
                  THEN grid_sell_loop(
                           [st EXCEPT !.sold = @ \cup {<<bought_lvl, sell_target>>},
                                      !.position = @ - base_order_quantity,
                                      !.bought = @ \ {bought_lvl},
                                      !.fills = Append(@, [side |-> "SELL",
                                                           level |-> bought_lvl,
                                                           price |-> sell_target])],
                           Tail(todo), levels, center, price, outcome)
                  ELSE grid_sell_loop(st, Tail(todo), levels, center, price, outcome)

execute_grid_trades(st, levels, center, price, outcomes) ==
    IF levels = <<>> THEN st
    ELSE LET st1 == grid_buy_loop(st, levels, center, price, outcomes["BUY"])
         IN  grid_sell_loop(st1, SortedSet(st1.bought), levels, center, price,
                            outcomes["SELL"])

----------------------------------------------------------------------------
(* The RiskManager driven through its public methods *)

RecordTradeResult(pnl) ==
    /\ program = "risk_manager"
    /\ n_recorded < MaxTrades
    /\ LET res == record_trade_result(risk, pnl, today)
       IN  /\ risk' = res.risk
           /\ risk_op' = [op |-> "record_trade_result", date |-> today, pnl |-> pnl,
                          losing_before |-> losing_calls,
                          allowed |-> TRUE, raised |-> res.raised]
    /\ losing_calls' = IF pnl < 0 THEN losing_calls + 1 ELSE 0
    /\ n_recorded' = n_recorded + 1
    /\ UNCHANGED <<program, cycleVars, regen_op, volVars, fileVars, today, gridVars, tradeVars>>

CheckTradeAllowed ==
    /\ program = "risk_manager"
    /\ LET res == check_trade_allowed(risk, today)
       IN  /\ risk' = res.risk
           /\ risk_op' = [op |-> "check_trade_allowed", date |-> today, pnl |-> 0,
                          losing_before |-> losing_calls,
                          allowed |-> res.allowed, raised |-> FALSE]
    /\ UNCHANGED <<program, cycleVars, regen_op, volVars, fileVars, today, losing_calls, n_recorded, gridVars, tradeVars>>

EmergencyStop ==
    /\ program = "risk_manager"
    /\ LET res == trigger_emergency_stop(risk)
       IN  /\ risk' = res.risk
           /\ risk_op' = [op |-> "emergency_stop", date |-> today, pnl |-> 0,
                          losing_before |-> losing_calls,
                          allowed |-> TRUE, raised |-> res.raised]
    /\ UNCHANGED <<program, cycleVars, regen_op, volVars, fileVars, today, losing_calls, n_recorded, gridVars, tradeVars>>

\* Midnight passes: datetime.now().date() moves to the next day.
AdvanceDay ==
    /\ today < MaxDay
    /\ today' = today + 1
    /\ UNCHANGED <<program, cycleVars, regen_op, volVars, fileVars, risk, risk_op, losing_calls, n_recorded, gridVars, tradeVars>>

InitRisk ==
    /\ program = "risk_manager"
    /\ today = 0
    /\ \E enabled \in BOOLEAN : risk = RiskManager_init(0, enabled)
    /\ risk_op = NoRiskOp
    /\ losing_calls = 0
    /\ n_recorded = 0
    /\ params = [center |-> 0, spacing |-> 0, levels |-> 0, account |-> NoAccount]
    /\ grid_levels = <<>>
    /\ total_capital = 0
    /\ gen_call = NoGenCall
    /\ pm = NoPosition
    /\ bought_levels = {}
    /\ sold_levels = {}
    /\ position = 0
    /\ tick = NoTick
    /\ exited = FALSE
    /\ n_buy_fills = 0
    /\ n_sell_fills = 0
    /\ gs = GridStrategy_init
    /\ ct = CycleTracker_init
    /\ ct_op = NoCycleOp
    /\ regen_op = NoRegenOp
    /\ volatility_history = <<>>
    /\ vol_op = NoVolOp
    /\ disk = NoFiles
    /\ saver = NoSaver

NextRisk ==
    \/ \E pnl \in TradePnls : RecordTradeResult(pnl)
    \/ CheckTradeAllowed
    \/ EmergencyStop
    \/ AdvanceDay

SpecRisk == InitRisk /\ [][NextRisk]_vars

----------------------------------------------------------------------------
(* The trading classes driven through their public methods *)

\* Centers, and prices that reach the levels of their ladders.  Every level
\* price is even and the directly bought prices differ by 720, so that the
\* average buy price PositionManager keeps is a whole number.
TradeCenters == {16000, 18800, 20000}
TickPrices == {16080, 18988, 19800, 20100}
ControllerCenters == {18800, 20000}
FetchedPrices == {0, 18988, 19800, 20100}
\* no data; a calm frame at both thresholds exactly (a 5% move, an ATR of 12%
\* of the close); a two-row frame with a 5.1% drop; a frame with an ATR of 12.5%
MarketData ==
    {NoData,
     [loaded |-> TRUE, rows |-> 20, prev_close |-> 20000, close |-> 21000,
      true_range_mean |-> 2520],
     [loaded |-> TRUE, rows |-> 2, prev_close |-> 20000, close |-> 18980,
      true_range_mean |-> 0],
     [loaded |-> TRUE, rows |-> 20, prev_close |-> 20000, close |-> 20000,
      true_range_mean |-> 2500]}
DirectPrices == {19800, 20520}
GridCenters == {10000}
\* the klines one run of GridStrategy.polling_loop processes
MaxKlines == 4
\* every kline of Spec reads the same regime strength, 0.5
KlineStrengths == {5}
ClosePrices == {9200, 9600, 10400, 10800}

Programs == {"order_executor", "controller", "grid_strategy", "position_manager"}

BuyFills(fills) == Cardinality({i \in 1..Len(fills) : fills[i].side = "BUY"})
SellFills(fills) == Cardinality({i \in 1..Len(fills) : fills[i].side = "SELL"})

\* The caller's bookkeeping after an execution call that ended in state st;
\* data and pause_all are the market data should_pause_trading was asked about
\* and its answer.
ExecutedPass(op, current_price, st, data, pause_all) ==
    /\ pm' = st.pm
    /\ bought_levels' = st.bought
    /\ sold_levels' = st.sold
    /\ position' = st.position
    /\ risk' = st.risk
    /\ exited' = st.exited
    /\ ct' = st.ct
    /\ tick' = [op |-> op, price |-> current_price,
                gate_open |-> check_trade_allowed(risk, today).allowed,
                bought_before |-> bought_levels,
                fills |-> st.fills, recorded |-> st.recorded,
                opportunities |-> NoOpportunities,
                data |-> data, pause_all |-> pause_all,
                failed |-> st.failed, skipped |-> st.skipped]
    /\ n_buy_fills' = n_buy_fills + BuyFills(st.fills)
    /\ n_sell_fills' = n_sell_fills + SellFills(st.fills)

Executed(op, current_price, st) == ExecutedPass(op, current_price, st, NoData, FALSE)

\* The owner of an OrderExecutor draws a new ladder around a new center.
RegenerateLadder(center) ==
    /\ program = "order_executor"
    /\ ~exited
    /\ GenerateGridLevels(center, 0, cfg_levels)
    /\ UNCHANGED <<program, cycleVars, regen_op, volVars, fileVars, riskVars, tradeVars>>

ExecuteBuyOrders(current_price, outcomes) ==
    /\ program = "order_executor"
    /\ ~exited
    /\ Executed("execute_buy_orders", current_price,
                execute_buy_loop(LoopState, grid_levels, current_price, outcomes))
    /\ UNCHANGED <<program, ct_op, regen_op, volVars, fileVars, today, risk_op, losing_calls, n_recorded, gridVars, gs>>

ExecuteSellOrders(current_price, outcomes, stop_exc) ==
    /\ program = "order_executor"
    /\ ~exited
    /\ Executed("execute_sell_orders", current_price,
                execute_sell_loop(LoopState, grid_levels, current_price, outcomes,
                                  stop_exc, today))
    /\ UNCHANGED <<program, ct_op, regen_op, volVars, fileVars, today, risk_op, losing_calls, n_recorded, gridVars, gs>>

GetTradingOpportunities(current_price) ==
    /\ program = "order_executor"
    /\ ~exited
    /\ tick' = [NoTick EXCEPT
                   !.op = "get_trading_opportunities",
                   !.price = current_price,
                   !.gate_open = check_trade_allowed(risk, today).allowed,
                   !.bought_before = bought_levels,
                   !.opportunities =
                       get_trading_opportunities(grid_levels, current_price,
                                                 bought_levels, sold_levels,
                                                 NoOpportunities)]
    /\ UNCHANGED <<program, cycleVars, regen_op, volVars, fileVars, riskVars, gridVars, pm, bought_levels,
                   sold_levels, position, exited, n_buy_fills, n_sell_fills, gs>>

ControllerGenerateGrid(center, account) ==
    /\ program = "controller"
    /\ GenerateGrid(center, grid_spacing_bp, cfg_levels, account)
    /\ UNCHANGED <<program, cycleVars, regen_op, volVars, fileVars, riskVars, tradeVars>>

\* One pass of polling_loop; fetched = 0 stands for a failed ticker request,
\* data for self.data.  should_pause_trading is asked only when there is a
\* ladder and market data.
PollingCycle(fetched, outcomes, data) ==
    /\ program = "controller"
    /\ LET asked == grid_levels # <<>> /\ data.loaded
           pause_all == asked /\ should_pause_trading(data).pause_all
       IN  ExecutedPass("polling_loop", fetched,
                        polling_cycle(LoopState, grid_levels, fetched, outcomes,
                                      pause_all),
                        IF asked THEN data ELSE NoData, pause_all)
    /\ UNCHANGED <<program, ct_op, regen_op, volVars, fileVars, today, risk_op, losing_calls, n_recorded, gridVars, gs>>

\* polling_loop of GridStrategy on a newly completed kline: base parameters
\* around c, regime detection, regeneration when due, the regime tracking,
\* then the trades at the kline's close.
NewKline(c, regime, new_strength, rsi_extreme, close, outcomes) ==
    /\ program = "grid_strategy"
    /\ ~exited
    /\ n_buy_fills < MaxFills
    /\ Len(gs.regime_strength_history) < MaxKlines
    /\ LET decision == should_regenerate_grid(gs, regime, new_strength)
           ap == adjust_grid(c, regime, rsi_extreme)
           levels == IF decision.returned THEN GridStrategy_generate_grid(ap)
                     ELSE grid_levels
           center == IF decision.returned THEN ap.center_price ELSE gs.center_price
           g1 == [decision.gs EXCEPT
                      !.center_price = center,
                      !.grid_generated = @ \/ decision.returned]
       IN  /\ grid_levels' = levels
           /\ gs' = update_regime_tracking(g1, regime, new_strength)
           /\ Executed("execute_grid_trades", close,
                       execute_grid_trades(LoopState, levels, center, close, outcomes))
    /\ UNCHANGED <<program, ct_op, regen_op, volVars, fileVars, today, risk_op, losing_calls,
                   n_recorded, params, total_capital, gen_call>>

\* A poll of GridStrategy.polling_loop whose get_klines request raises: the
\* while loop stands in a try statement that handles KeyboardInterrupt only, so
\* the exception leaves polling_loop.
KlinesRequestRaises ==
    /\ program = "grid_strategy"
    /\ ~exited
    /\ exited' = TRUE
    /\ tick' = [NoTick EXCEPT !.op = "get_klines raised"]
    /\ UNCHANGED <<program, cycleVars, regen_op, volVars, fileVars, riskVars, gridVars, pm, bought_levels,
                   sold_levels, position, n_buy_fills, n_sell_fills, gs>>

ForceGridRegeneration ==
    /\ program = "grid_strategy"
    /\ ~gs.force_regenerate
    /\ gs' = [gs EXCEPT !.force_regenerate = TRUE]
    /\ UNCHANGED <<program, cycleVars, regen_op, volVars, fileVars, riskVars, gridVars, pm, bought_levels, sold_levels,
                   position, tick, exited, n_buy_fills, n_sell_fills>>

\* PositionManager.buy and PositionManager.sell called directly.
PositionManagerBuy(price) ==
    /\ program = "position_manager"
    /\ n_buy_fills < MaxFills
    /\ pm' = PositionManager_buy(pm, base_order_quantity, price)
    /\ n_buy_fills' = n_buy_fills + 1
    /\ tick' = [NoTick EXCEPT !.op = "buy", !.price = price]
    /\ UNCHANGED <<program, cycleVars, regen_op, volVars, fileVars, riskVars, gridVars, bought_levels, sold_levels,
                   position, exited, n_sell_fills, gs>>

PositionManagerSell(price) ==
    /\ program = "position_manager"
    /\ LET res == PositionManager_sell(pm, base_order_quantity, price)
       IN  /\ pm' = res.pm
           /\ n_sell_fills' = IF res.raised THEN n_sell_fills ELSE n_sell_fills + 1
           /\ tick' = [NoTick EXCEPT !.op = IF res.raised THEN "sell raised" ELSE "sell",
                                     !.price = price]
    /\ UNCHANGED <<program, cycleVars, regen_op, volVars, fileVars, riskVars, gridVars, bought_levels, sold_levels,
                   position, exited, n_buy_fills, gs>>

Init ==
    /\ program \in Programs
    /\ today = 0
    /\ risk = RiskManager_init(0, TRUE)
    /\ risk_op = NoRiskOp
    /\ losing_calls = 0
    /\ n_recorded = 0
    /\ params = [center |-> 0, spacing |-> 0, levels |-> 0, account |-> NoAccount]
    /\ grid_levels = <<>>
    /\ total_capital = 0
    /\ gen_call = NoGenCall
    /\ pm = NoPosition
    /\ bought_levels = {}
    /\ sold_levels = {}
    /\ position = 0
    /\ tick = NoTick
    /\ exited = FALSE
    /\ n_buy_fills = 0
    /\ n_sell_fills = 0
    /\ gs = GridStrategy_init
    /\ ct = CycleTracker_init
    /\ ct_op = NoCycleOp
    /\ regen_op = NoRegenOp
    /\ volatility_history = <<>>
    /\ vol_op = NoVolOp
    /\ disk = NoFiles
    /\ saver = NoSaver

Next ==
    \/ \E c \in TradeCenters : RegenerateLadder(c)
    \/ \E price \in TickPrices, o \in [BuyIds -> OrderOutcomes] :
          ExecuteBuyOrders(price, o)
    \/ \E price \in TickPrices, o \in [SellIds -> OrderOutcomes],
          exc \in StopExceptions :
          ExecuteSellOrders(price, o, exc)
    \/ \E price \in TickPrices : GetTradingOpportunities(price)
    \/ \E c \in ControllerCenters, a \in AccountOutcomes : ControllerGenerateGrid(c, a)
    \/ \E price \in FetchedPrices, o \in [{"BUY", "SELL"} -> OrderOutcomes],
          data \in MarketData :
          PollingCycle(price, o, data)
    \/ \E c \in GridCenters, r \in Regimes, s \in KlineStrengths, x \in RsiExtremes,
          close \in ClosePrices, o \in [{"BUY", "SELL"} -> OrderOutcomes] :
          NewKline(c, r, s, x, close, o)
    \/ KlinesRequestRaises
    \/ ForceGridRegeneration
    \/ \E price \in DirectPrices : PositionManagerBuy(price)
    \/ \E price \in DirectPrices : PositionManagerSell(price)

Spec == Init /\ [][Next]_vars

----------------------------------------------------------------------------
(* Properties of the trading classes, checked under Spec *)

ExecutionOps == {"execute_buy_orders", "execute_sell_orders", "polling_loop",
                 "execute_grid_trades"}

\* C1: an execution call never fills a BUY level that was in bought_levels
\* when the call began, and fills no BUY level twice; it holds for
\* OrderExecutor, for the controller and for GridStrategy.
C1_NoDuplicateBuyFill ==
    \A i \in 1..Len(tick.fills) :
        tick.fills[i].side = "BUY" =>
            /\ tick.fills[i].level \notin tick.bought_before
            /\ \A j \in 1..Len(tick.fills) :
                   (j # i /\ tick.fills[j].side = "BUY")
                   => tick.fills[j].level # tick.fills[i].level

\* An execute_buy_orders call whose price reached a BUY level that was already
\* bought, and which filled another level of the ladder.
C1_Witness ==
    /\ tick.op = "execute_buy_orders"
    /\ tick.fills # <<>>
    /\ \E i \in 1..Len(grid_levels) :
          /\ grid_levels[i].side = "BUY"
          /\ tick.price <= grid_levels[i].price
          /\ grid_levels[i].level \in tick.bought_before

\* C2 as stated: once every buy fill has been followed by its sell fill no
\* level is left in bought_levels, and every sell fill of a call leaves its
\* (level, sell price) pair in sold_levels.
C2_RoundTrip ==
    /\ (n_buy_fills > 0 /\ n_sell_fills = n_buy_fills) => bought_levels = {}
    /\ \A i \in 1..Len(tick.fills) :
          tick.fills[i].side = "SELL"
          => <<tick.fills[i].level, tick.fills[i].price>> \in sold_levels

\* C4: the quantity held by the PositionManager and the position counter are
\* never negative, and sell fills never outnumber buy fills.
C4_SpotOnly ==
    /\ pm.quantity >= 0
    /\ position >= 0
    /\ n_sell_fills <= n_buy_fills

\* Everything bought has been sold, a further SELL level is reached by the
\* price, and the call sells nothing.
C4_Witness ==
    /\ tick.op = "execute_sell_orders"
    /\ tick.fills = <<>>
    /\ n_buy_fills > 0
    /\ n_sell_fills = n_buy_fills
    /\ ~pm.open
    /\ \E i \in 1..Len(grid_levels) :
          sell_ready(grid_levels[i], tick.price, sold_levels)

\* C7 as stated: an execution call that begins while check_trade_allowed
\* would return false places no order, so it fills nothing.
C7_RiskGate ==
    (tick.op \in ExecutionOps /\ ~tick.gate_open) => tick.fills = <<>>

\* C10 as stated: execute_sell_orders hands exactly one pnl to
\* record_trade_result for each of its sell fills, the fill that closes the
\* position included.
C10_EverySellRecorded ==
    tick.op = "execute_sell_orders" => Len(tick.recorded) = SellFills(tick.fills)

----------------------------------------------------------------------------
(* Properties of the RiskManager, checked under SpecRisk *)

\* C5: once emergency_stop_triggered is true it stays true, and every
\* check_trade_allowed call made from then on returns false, whatever winning
\* trades or day rollovers follow.
C5_StickyStop ==
    [][risk.emergency_stop_triggered =>
         /\ risk'.emergency_stop_triggered
         /\ ~check_trade_allowed(risk', today').allowed
         /\ (risk_op'.op = "check_trade_allowed" => ~risk_op'.allowed)]_vars

\* The stop was set on an earlier day, a winning trade has been recorded
\* today, and a check_trade_allowed call made after that returned false.
C5_Witness ==
    /\ risk.emergency_stop_triggered
    /\ today > 0
    /\ risk.last_reset_date = today
    /\ risk.daily_pnl[today] > 0
    /\ risk_op.op = "check_trade_allowed"
    /\ ~risk_op.allowed

\* C6 as stated: after any record_trade_result call, if |daily_pnl[today]|
\* >= daily_loss_limit or current_drawdown >= max_drawdown_limit then
\* emergency_stop_triggered is true.
C6_BreachStopsAsStated ==
    (/\ risk_op.op = "record_trade_result"
     /\ \/ Abs(risk.daily_pnl[risk_op.date]) >= daily_loss_limit
        \/ risk.current_drawdown >= max_drawdown_limit)
    => risk.emergency_stop_triggered

\* C6 amended: with emergency_stop_enabled set, after any record_trade_result
\* call, if the day's pnl is a loss of at least daily_loss_limit or
\* current_drawdown >= max_drawdown_limit then emergency_stop_triggered is true.
C6_BreachStops ==
    (/\ risk_op.op = "record_trade_result"
     /\ risk.emergency_stop_enabled
     /\ \/ -risk.daily_pnl[risk_op.date] >= daily_loss_limit
        \/ risk.current_drawdown >= max_drawdown_limit)
    => risk.emergency_stop_triggered

\* A record_trade_result call that reached the drawdown limit exactly, on a day
\* whose loss is below the daily limit, and set the stop.
C6_Witness ==
    /\ risk_op.op = "record_trade_result"
    /\ risk_op.raised
    /\ risk.emergency_stop_enabled
    /\ risk.current_drawdown = max_drawdown_limit
    /\ -risk.daily_pnl[risk_op.date] < daily_loss_limit
    /\ risk.emergency_stop_triggered

EarlyWarning(d) == 10 * (-risk.daily_pnl[d]) >= 8 * daily_loss_limit

\* C8: after max_consecutive_losses or more losing record_trade_result calls in
\* a row check_trade_allowed returns false; after one further winning call
\* consecutive_losses is 0 and, with no emergency stop and the day's loss
\* below the early-warning threshold, check_trade_allowed returns true again.
C8_LossBlockAndRecovery ==
    /\ (/\ risk_op.op = "record_trade_result"
        /\ risk_op.pnl < 0
        /\ risk_op.losing_before + 1 >= max_consecutive_losses)
       => ~check_trade_allowed(risk, today).allowed
    /\ (risk_op.op = "check_trade_allowed"
        /\ risk_op.losing_before >= max_consecutive_losses)
       => ~risk_op.allowed
    /\ (/\ risk_op.op = "record_trade_result"
        /\ risk_op.pnl > 0
        /\ risk_op.losing_before >= max_consecutive_losses)
       => /\ risk.consecutive_losses = 0
          /\ (~risk.emergency_stop_triggered /\ ~EarlyWarning(today))
             => check_trade_allowed(risk, today).allowed
    /\ (/\ risk_op.op = "check_trade_allowed"
        /\ risk_op.losing_before = 0
        /\ ~risk.emergency_stop_triggered
        /\ ~EarlyWarning(risk_op.date))
       => risk_op.allowed

\* A winning trade recorded right after a blocking run of losses, with the
\* gate open again.
C8_Witness ==
    /\ risk_op.op = "record_trade_result"
    /\ risk_op.pnl > 0
    /\ risk_op.losing_before >= max_consecutive_losses
    /\ risk.consecutive_losses = 0
    /\ ~risk.emergency_stop_triggered
    /\ check_trade_allowed(risk, today).allowed

\* C9: a record_trade_result call sets the emergency stop only when the day's
\* loss or the drawdown has reached its hard limit; a run of losses that stays
\* strictly below both never sets it, however long the run.
C9_LossesAloneNeverStop ==
    [][(/\ ~risk.emergency_stop_triggered
        /\ risk'.emergency_stop_triggered
        /\ risk_op'.op = "record_trade_result")
       => \/ -risk'.daily_pnl[today] >= daily_loss_limit
          \/ risk'.current_drawdown >= max_drawdown_limit]_vars

\* More losses in a row than max_consecutive_losses have been recorded and the
\* stop is still off, while check_trade_allowed refuses.
C9_Witness ==
    /\ risk_op.op = "record_trade_result"
    /\ risk.emergency_stop_enabled
    /\ risk_op.losing_before >= max_consecutive_losses
    /\ risk.consecutive_losses > max_consecutive_losses
    /\ ~risk.emergency_stop_triggered
    /\ ~check_trade_allowed(risk, today).allowed

----------------------------------------------------------------------------
(* The ladder generators applied to arguments drawn at the start *)

ApplyGenerateGridLevels ==
    /\ program = "generators"
    /\ GenerateGridLevels(params.center, params.spacing, params.levels)
    /\ UNCHANGED <<program, cycleVars, regen_op, volVars, fileVars, riskVars, tradeVars>>

ApplyGenerateGrid ==
    /\ program = "generators"
    /\ GenerateGrid(params.center, params.spacing, params.levels, params.account)
    /\ UNCHANGED <<program, cycleVars, regen_op, volVars, fileVars, riskVars, tradeVars>>

InitGrid ==
    /\ program = "generators"
    /\ today = 0
    /\ risk = RiskManager_init(0, TRUE)
    /\ risk_op = NoRiskOp
    /\ losing_calls = 0
    /\ n_recorded = 0
    /\ params \in [center : Centers, spacing : Spacings, levels : 0..MaxLevels,
                   account : AccountOutcomes]
    /\ grid_levels = <<>>
    /\ total_capital \in {0, 10000}
    /\ gen_call = NoGenCall
    /\ pm = NoPosition
    /\ bought_levels = {}
    /\ sold_levels = {}
    /\ position = 0
    /\ tick = NoTick
    /\ exited = FALSE
    /\ n_buy_fills = 0
    /\ n_sell_fills = 0
    /\ gs = GridStrategy_init
    /\ ct = CycleTracker_init
    /\ ct_op = NoCycleOp
    /\ regen_op = NoRegenOp
    /\ volatility_history = <<>>
    /\ vol_op = NoVolOp
    /\ disk = NoFiles
    /\ saver = NoSaver

NextGrid ==
    \/ ApplyGenerateGridLevels
    \/ ApplyGenerateGrid

SpecGrid == InitGrid /\ [][NextGrid]_vars

----------------------------------------------------------------------------
(* Properties of the ladder generators, checked under SpecGrid *)

\* g holds exactly `levels` levels: for i = 1..levels/2 one BUY level -i at
\* center*(1 - spacing*i), strictly below the center, and one SELL level +i at
\* center*(1 + spacing*i), strictly above it, and no two levels share a price.
LadderShape(g, center, bp, levels) ==
    /\ Len(g) = levels
    /\ \A i \in 1..(levels \div 2) :
          /\ \E j \in 1..Len(g) : /\ g[j].side = "BUY"
                                  /\ g[j].level = -i
                                  /\ g[j].price * 10000 = center * (10000 - bp * i)
                                  /\ g[j].price < center
          /\ \E j \in 1..Len(g) : /\ g[j].side = "SELL"
                                  /\ g[j].level = i
                                  /\ g[j].price * 10000 = center * (10000 + bp * i)
                                  /\ g[j].price > center
    /\ \A j, k \in 1..Len(g) : j # k => g[j].price # g[k].price

ValidLadderCall ==
    /\ gen_call.fn # "none"
    /\ gen_call.center > 0
    /\ gen_call.spacing > 0
    /\ gen_call.levels > 0
    /\ gen_call.levels % 2 = 0

\* C3 as stated: for every center > 0, spacing > 0 and even positive level
\* count, generate_grid_levels and the controller's generate_grid both return
\* the ladder of exactly `levels` levels described by LadderShape.
C3_LadderShapeAsStated ==
    ValidLadderCall =>
        /\ ~gen_call.raised
        /\ LadderShape(gen_call.returned, gen_call.center, gen_call.spacing,
                       gen_call.levels)

\* C3 amended: generate_grid_levels always returns that ladder; the controller's
\* generate_grid returns it when the capital is known or the account balance
\* can be read and no level is priced at zero, and raises otherwise.
C3_LadderShape ==
    ValidLadderCall =>
        LET readable == gen_call.capital_before # 0 \/ gen_call.account.ok
            zero_price == \E i \in 1..(gen_call.levels \div 2) :
                              gen_call.spacing * i = 10000
            returns == gen_call.fn = "generate_grid_levels"
                       \/ (readable /\ ~zero_price)
        IN  IF returns
            THEN /\ ~gen_call.raised
                 /\ LadderShape(gen_call.returned, gen_call.center,
                                gen_call.spacing, gen_call.levels)
            ELSE gen_call.raised

C3_Witness ==
    /\ gen_call.fn = "generate_grid"
    /\ ValidLadderCall
    /\ gen_call.levels >= 4
    /\ ~gen_call.raised
    /\ Len(gen_call.returned) = gen_call.levels
    /\ grid_levels = gen_call.returned

----------------------------------------------------------------------------
(* The CycleTracker driven through its public methods *)

RECURSIVE TotalFills(_)
TotalFills(objects) ==
    IF objects = <<>> THEN 0 ELSE Len(Head(objects).fills) + TotalFills(Tail(objects))

StartNewCycle(initial_price) ==
    /\ program = "cycle_tracker"
    /\ Len(ct.objects) < MaxCycles
    /\ ct' = start_new_cycle(ct, initial_price, grid_levels)
    /\ ct_op' = [op |-> "start_new_cycle", side |-> "none", price |-> initial_price,
                 fee_asset |-> "none", cycle_before |-> ct.current_cycle,
                 history_before |-> Len(ct.cycles), raised |-> FALSE]
    /\ UNCHANGED <<program, riskVars, gridVars, tradeVars, regen_op, volVars, fileVars>>

RecordOrderFill(side, price, fee, fee_asset) ==
    /\ program = "cycle_tracker"
    /\ TotalFills(ct.objects) < MaxCycleFills
    /\ LET res == record_order_fill(ct, side, price, base_order_quantity, fee,
                                    fee_asset, today)
       IN  /\ ct' = res.ct
           /\ ct_op' = [op |-> "record_order_fill", side |-> side, price |-> price,
                        fee_asset |-> fee_asset, cycle_before |-> ct.current_cycle,
                        history_before |-> Len(ct.cycles), raised |-> res.raised]
    /\ UNCHANGED <<program, riskVars, gridVars, tradeVars, regen_op, volVars, fileVars>>

InitCycle ==
    /\ program = "cycle_tracker"
    /\ today = 0
    /\ risk = RiskManager_init(0, TRUE)
    /\ risk_op = NoRiskOp
    /\ losing_calls = 0
    /\ n_recorded = 0
    /\ params = [center |-> 0, spacing |-> 0, levels |-> 0, account |-> NoAccount]
    /\ grid_levels = <<>>
    /\ total_capital = 0
    /\ gen_call = NoGenCall
    /\ pm = NoPosition
    /\ bought_levels = {}
    /\ sold_levels = {}
    /\ position = 0
    /\ tick = NoTick
    /\ exited = FALSE
    /\ n_buy_fills = 0
    /\ n_sell_fills = 0
    /\ gs = GridStrategy_init
    /\ ct = CycleTracker_init
    /\ ct_op = NoCycleOp
    /\ regen_op = NoRegenOp
    /\ volatility_history = <<>>
    /\ vol_op = NoVolOp
    /\ disk = NoFiles
    /\ saver = NoSaver

NextCycle ==
    \/ \E price \in FillPrices : StartNewCycle(price)
    \/ \E side \in FillSides, price \in FillPrices, fee \in FillFees,
          asset \in FeeAssets :
          RecordOrderFill(side, price, fee, asset)

SpecCycle == InitCycle /\ [][NextCycle]_vars

----------------------------------------------------------------------------
(* Properties of the CycleTracker *)

\* C11 as stated (checked under Spec): after one buy fill and then one sell
\* fill the CycleTracker history holds exactly one cycle, completed, whose
\* gross_profit is (sell price - buy price) * quantity.
C11_OneCompletedCycle ==
    (/\ tick.op = "execute_sell_orders"
     /\ SellFills(tick.fills) = 1
     /\ n_buy_fills = 1
     /\ n_sell_fills = 1)
    => /\ Len(ct.cycles) = 1
       /\ ct.objects[ct.cycles[1]].status = "completed"
       /\ \E i \in 1..Len(grid_levels) :
             /\ grid_levels[i].level \in bought_levels
             /\ ct.objects[ct.cycles[1]].gross_profit =
                    (tick.fills[1].price - grid_levels[i].price) * base_order_quantity

\* C12 as stated (checked under SpecCycle): after a record_order_fill call on
\* an active cycle, the cycle is completed exactly when it holds a BUY fill
\* and a SELL fill; a completed cycle is in the history exactly once and
\* current_cycle is None, any other stays the active cycle outside the history.
C12_CycleCompletion ==
    (ct_op.op = "record_order_fill" /\ ct_op.cycle_before # 0) =>
        LET cycle == ct.objects[ct_op.cycle_before]
            in_history == {i \in 1..Len(ct.cycles) : ct.cycles[i] = ct_op.cycle_before}
        IN  IF HasFill(cycle.fills, "BUY") /\ HasFill(cycle.fills, "SELL")
            THEN /\ cycle.status = "completed"
                 /\ Cardinality(in_history) = 1
                 /\ ct.current_cycle = 0
            ELSE /\ cycle.status = "active"
                 /\ in_history = {}
                 /\ ct.current_cycle = ct_op.cycle_before

\* C13 as stated (checked under SpecCycle): a BUY fill recorded while no cycle
\* is active leaves an active cycle whose last fill is that BUY.
C13_BuyOpensCycle ==
    (ct_op.op = "record_order_fill" /\ ct_op.side = "BUY" /\ ct_op.cycle_before = 0)
    => /\ ct.current_cycle # 0
       /\ LET fills == ct.objects[ct.current_cycle].fills
          IN  /\ fills # <<>>
              /\ fills[Len(fills)].side = "BUY"
              /\ fills[Len(fills)].price = ct_op.price

----------------------------------------------------------------------------
(* Properties of get_trading_opportunities, checked under Spec *)

ListedLevels(entries) == {<<entries[i].level, entries[i].price>> : i \in 1..Len(entries)}

CandidateLevels(side) ==
    {<<grid_levels[i].level, grid_levels[i].price>> :
        i \in {j \in 1..Len(grid_levels) :
                 /\ grid_levels[j].side = side
                 /\ IF side = "BUY"
                    THEN /\ tick.price <= grid_levels[j].price
                         /\ grid_levels[j].level \notin bought_levels
                    ELSE /\ tick.price >= grid_levels[j].price
                         /\ <<grid_levels[j].level, grid_levels[j].price>>
                                \notin sold_levels}}

\* C14: get_trading_opportunities returns as buy candidates exactly the BUY
\* levels with price <= level.price whose id is not in bought_levels, and as
\* sell candidates exactly the SELL levels with price >= level.price whose
\* (id, price) pair is not in sold_levels, each once.  The call changes no
\* state and its lists are determined by the ladder, the price and the two
\* sets, so a second call with the same price and no fill in between returns
\* the same lists.
C14_PureCandidates ==
    [][(tick'.op = "get_trading_opportunities" /\ tick' # tick) =>
            /\ UNCHANGED <<grid_levels, bought_levels, sold_levels, pm, position,
                           risk, ct, n_buy_fills, n_sell_fills, exited>>
            /\ ListedLevels(tick'.opportunities.buy) = CandidateLevels("BUY")'
            /\ ListedLevels(tick'.opportunities.sell) = CandidateLevels("SELL")'
            /\ Len(tick'.opportunities.buy) = Cardinality(CandidateLevels("BUY")')
            /\ Len(tick'.opportunities.sell) = Cardinality(CandidateLevels("SELL")')
      ]_vars

\* A call at a price that reaches a bought BUY level and an unbought one: it
\* lists the unbought level only.
C14_Witness ==
    /\ tick.op = "get_trading_opportunities"
    /\ Len(tick.opportunities.buy) = 1
    /\ tick.opportunities.sell = <<>>
    /\ \E i \in 1..Len(grid_levels) :
          /\ grid_levels[i].side = "BUY"
          /\ tick.price <= grid_levels[i].price
          /\ grid_levels[i].level \in bought_levels
          /\ grid_levels[i].level # tick.opportunities.buy[1].level

----------------------------------------------------------------------------
(* GridStrategy's regeneration policy driven through its public methods *)

PolicyStrengths == {2, 9}
MaxReadings == 6        \* regime strength readings explored in SpecRegen

\* start_trading: the first ladder, drawn around c
StartTrading(c, regime, strength, rsi_extreme) ==
    /\ program = "grid_strategy"
    /\ ~gs.grid_generated
    /\ Len(gs.regime_strength_history) < MaxReadings
    /\ LET ap == adjust_grid(c, regime, rsi_extreme)
       IN  /\ grid_levels' = GridStrategy_generate_grid(ap)
           /\ gs' = update_regime_tracking(
                        [gs EXCEPT !.center_price = ap.center_price,
                                   !.grid_generated = TRUE],
                        regime, strength)
    /\ UNCHANGED <<program, cycleVars, regen_op, volVars, fileVars, riskVars, params, total_capital,
                   gen_call, pm, bought_levels, sold_levels, position, tick, exited,
                   n_buy_fills, n_sell_fills>>

ShouldRegenerateGrid(new_regime, new_strength) ==
    /\ program = "grid_strategy"
    /\ LET decision == should_regenerate_grid(gs, new_regime, new_strength)
       IN  /\ gs' = decision.gs
           /\ regen_op' = [new_regime |-> new_regime, new_strength |-> new_strength,
                           returned |-> decision.returned,
                           forced |-> gs.force_regenerate,
                           previous_forced |-> regen_op.forced]
    /\ UNCHANGED <<program, cycleVars, volVars, fileVars, riskVars, gridVars, pm, bought_levels,
                   sold_levels, position, tick, exited, n_buy_fills, n_sell_fills>>

UpdateRegimeTracking(regime, strength) ==
    /\ program = "grid_strategy"
    /\ Len(gs.regime_strength_history) < MaxReadings
    /\ gs' = update_regime_tracking(gs, regime, strength)
    /\ UNCHANGED <<program, cycleVars, regen_op, volVars, fileVars, riskVars, gridVars, pm,
                   bought_levels, sold_levels, position, tick, exited, n_buy_fills,
                   n_sell_fills>>

InitRegen ==
    /\ program = "grid_strategy"
    /\ today = 0
    /\ risk = RiskManager_init(0, TRUE)
    /\ risk_op = NoRiskOp
    /\ losing_calls = 0
    /\ n_recorded = 0
    /\ params = [center |-> 0, spacing |-> 0, levels |-> 0, account |-> NoAccount]
    /\ grid_levels = <<>>
    /\ total_capital = 0
    /\ gen_call = NoGenCall
    /\ pm = NoPosition
    /\ bought_levels = {}
    /\ sold_levels = {}
    /\ position = 0
    /\ tick = NoTick
    /\ exited = FALSE
    /\ n_buy_fills = 0
    /\ n_sell_fills = 0
    /\ gs = GridStrategy_init
    /\ ct = CycleTracker_init
    /\ ct_op = NoCycleOp
    /\ regen_op = NoRegenOp
    /\ volatility_history = <<>>
    /\ vol_op = NoVolOp
    /\ disk = NoFiles
    /\ saver = NoSaver

NextRegen ==
    \/ \E c \in GridCenters, r \in Regimes, s \in PolicyStrengths, x \in RsiExtremes :
          StartTrading(c, r, s, x)
    \/ \E r \in Regimes, s \in PolicyStrengths : ShouldRegenerateGrid(r, s)
    \/ \E r \in Regimes, s \in PolicyStrengths : UpdateRegimeTracking(r, s)
    \/ ForceGridRegeneration

SpecRegen == InitRegen /\ [][NextRegen]_vars

----------------------------------------------------------------------------
(* Properties of the regeneration policy, checked under SpecRegen *)

\* A step that is a should_regenerate_grid call: the only one that writes
\* regen_op, or clears the force flag.
RegenerationCall ==
    regen_op' # regen_op \/ (gs.force_regenerate /\ ~gs'.force_regenerate)

MeanOfLastFive(history) == SumSeq(SubSeq(history, Len(history) - 4, Len(history)))

C16_ForceConsumedOnce ==
    [][RegenerationCall =>
          /\ gs.force_regenerate => regen_op'.returned
          /\ ~gs'.force_regenerate
          /\ (/\ ~gs.force_regenerate
              /\ gs.grid_generated
              /\ regen_op'.new_regime = gs.current_regime
              /\ ~strength_change_detected(gs.regime_strength_history,
                                           regen_op'.new_strength))
             => ~regen_op'.returned]_vars

\* The call after a forced one returned false.
C16_Witness ==
    /\ regen_op.previous_forced
    /\ ~regen_op.forced
    /\ ~regen_op.returned
    /\ gs.grid_generated
    /\ ~gs.force_regenerate

\* C17 as stated (checked under Spec): when a kline regenerates the ladder,
\* execute_grid_trades finds bought_levels empty, and the only pairs in
\* sold_levels after the kline are those of its own sell fills.
C17_RegenerationClearsSets ==
    [][(/\ program = "grid_strategy"
        /\ grid_levels' # grid_levels
        /\ tick'.op = "execute_grid_trades")
       => /\ tick'.bought_before = {}
          /\ sold_levels' = {<<tick'.fills[i].level, tick'.fills[i].price>> :
                               i \in {j \in 1..Len(tick'.fills) :
                                        tick'.fills[j].side = "SELL"}}]_vars

----------------------------------------------------------------------------
(* Failed price fetch in GridStrategyController.polling_loop *)

\* C18: a pass of GridStrategyController.polling_loop whose price fetch failed
\* (the pass goes on with current_price = 0) executes no buy and no sell, so
\* bought_levels, sold_levels and position are unchanged by it.
C18_FetchFailureSkipsTick ==
    (tick.op = "polling_loop" /\ tick.price = 0) => tick.fills = <<>>

----------------------------------------------------------------------------
(* The polling loops under failing external calls *)

\* C19: no failure of one external call inside a tick ends a polling loop:
\* after a pass of GridStrategyController.polling_loop (price 0: the ticker
\* request failed; an order rejected or refused: the order request failed) and
\* after a poll of GridStrategy.polling_loop, whatever request failed in it,
\* the loop is still running.
C19_LoopSurvivesFailures ==
    tick.op \in {"polling_loop", "execute_grid_trades", "get_klines raised"}
        => ~exited

----------------------------------------------------------------------------
(* The pause of GridStrategyController.polling_loop *)

\* C20: in a pass of GridStrategyController.polling_loop that asks
\* should_pause_trading, pause_all is reported exactly when the volatility
\* ratio is above 12% or the last close moved more than 5% from the one before
\* it, and a pass in which pause_all is reported executes no buy and no sell
\* and leaves the ladder, bought_levels, sold_levels, the position and the
\* PositionManager untouched.
C20_PauseCircuitBreaker ==
    [][(tick'.op = "polling_loop" /\ tick' # tick /\ tick'.data.loaded) =>
           LET df == tick'.data
               atr == IF df.rows >= 15 THEN df.true_range_mean ELSE 0
               volatile == df.close > 0 /\ 100 * atr > 12 * df.close
               moved == /\ df.rows >= 2
                        /\ \/ 100 * (df.close - df.prev_close) > 5 * df.prev_close
                           \/ 100 * (df.prev_close - df.close) > 5 * df.prev_close
           IN  /\ tick'.pause_all = (df.rows > 0 /\ (volatile \/ moved))
               /\ tick'.pause_all =>
                      /\ tick'.fills = <<>>
                      /\ UNCHANGED <<grid_levels, bought_levels, sold_levels,
                                     position, pm, n_buy_fills, n_sell_fills>>
      ]_vars

\* A paused pass at a fetched price at which a BUY level was due.
C20_Witness ==
    /\ tick.op = "polling_loop"
    /\ tick.pause_all
    /\ tick.price > 0
    /\ \E i \in 1..Len(grid_levels) :
           buy_ready(grid_levels[i], tick.price, bought_levels)

----------------------------------------------------------------------------
(* VolatilityManager called directly *)

MaxVolHistory == 2
\* volatility ratios in thousandths: below, at and above every threshold
VolatilityRatios == {0, 14, 15, 24, 25, 39, 40, 59, 60, 79, 80, 130}
\* frames with too few rows for an ATR (0, 10 and 14 rows) and frames of 15 and
\* 20 rows whose ATR is 1%, 4% or 8% of the close 20000
VolatilityFrames ==
    {[loaded |-> TRUE, rows |-> r, prev_close |-> 20000, close |-> 20000,
      true_range_mean |-> t] : r \in {0, 10, 14, 15, 20}, t \in {200, 800, 1600}}
BaseSpacings == {50}
BasePositionSizes == {1000}

ClassifyVolatilityRegime(r) ==
    /\ program = "volatility_manager"
    /\ vol_op' = [NoVolOp EXCEPT
                     !.op = "classify_volatility_regime",
                     !.volatility_ratio = [num |-> r, den |-> 1000],
                     !.regime = classify_volatility_regime([num |-> r, den |-> 1000])]
    /\ UNCHANGED <<program, riskVars, gridVars, tradeVars, cycleVars, regen_op, fileVars,
                   volatility_history>>

GetAdjustedGridParams(base_spacing_pct, base_position_size, df) ==
    /\ program = "volatility_manager"
    /\ Len(volatility_history) < MaxVolHistory
    /\ LET res == get_adjusted_grid_params(volatility_history, base_spacing_pct,
                                           base_position_size, df)
       IN  /\ volatility_history' = res.history
           /\ vol_op' = [op |-> "get_adjusted_grid_params", df |-> df,
                         volatility_ratio |-> res.returned.volatility_ratio,
                         regime |-> res.returned.regime,
                         adjusted_spacing_pct |-> res.returned.adjusted_spacing_pct,
                         adjusted_position_size |-> res.returned.adjusted_position_size]
    /\ UNCHANGED <<program, riskVars, gridVars, tradeVars, cycleVars, regen_op, fileVars>>

InitVol ==
    /\ program = "volatility_manager"
    /\ today = 0
    /\ risk = RiskManager_init(0, TRUE)
    /\ risk_op = NoRiskOp
    /\ losing_calls = 0
    /\ n_recorded = 0
    /\ params = [center |-> 0, spacing |-> 0, levels |-> 0, account |-> NoAccount]
    /\ grid_levels = <<>>
    /\ total_capital = 0
    /\ gen_call = NoGenCall
    /\ pm = NoPosition
    /\ bought_levels = {}
    /\ sold_levels = {}
    /\ position = 0
    /\ tick = NoTick
    /\ exited = FALSE
    /\ n_buy_fills = 0
    /\ n_sell_fills = 0
    /\ gs = GridStrategy_init
    /\ ct = CycleTracker_init
    /\ ct_op = NoCycleOp
    /\ regen_op = NoRegenOp
    /\ volatility_history = <<>>
    /\ vol_op = NoVolOp
    /\ disk = NoFiles
    /\ saver = NoSaver

NextVol ==
    \/ \E r \in VolatilityRatios : ClassifyVolatilityRegime(r)
    \/ \E b \in BaseSpacings, q \in BasePositionSizes, df \in VolatilityFrames :
          GetAdjustedGridParams(b, q, df)

SpecVol == InitVol /\ [][NextVol]_vars

\* C21: the regime of a volatility ratio is the one of the highest threshold
\* the ratio reaches (>=), very_low when it reaches none; and of two classified
\* ratios, the larger never gets the smaller spacing multiplier nor the larger
\* position multiplier.
C21_ClassificationMonotonic ==
    [][vol_op' # vol_op =>
          LET r2 == vol_op'.volatility_ratio
              r1 == vol_op.volatility_ratio
              reached == {n \in DOMAIN volatility_thresholds :
                            1000 * r2.num >= volatility_thresholds[n] * r2.den}
          IN  /\ vol_op'.regime =
                    IF reached = {} THEN "very_low"
                    ELSE CHOOSE n \in reached :
                             \A m \in reached :
                                 volatility_thresholds[m] <= volatility_thresholds[n]
              /\ (vol_op.op # "none" /\ r1.num * r2.den <= r2.num * r1.den) =>
                     /\ spacing_multipliers[vol_op.regime]
                            <= spacing_multipliers[vol_op'.regime]
                     /\ position_multipliers[vol_op.regime]
                            >= position_multipliers[vol_op'.regime]
              /\ (vol_op.op # "none" /\ r2.num * r1.den <= r1.num * r2.den) =>
                     /\ spacing_multipliers[vol_op'.regime]
                            <= spacing_multipliers[vol_op.regime]
                     /\ position_multipliers[vol_op'.regime]
                            >= position_multipliers[vol_op.regime]
      ]_vars

\* A ratio exactly at the threshold of very_high classified after a smaller one.
C21_Witness ==
    /\ vol_op.op = "classify_volatility_regime"
    /\ vol_op.volatility_ratio.num = 80
    /\ vol_op.regime = "very_high"

\* C22: with fewer than 15 bars the volatility ratio is 0 and
\* get_adjusted_grid_params uses the normal regime, both multipliers 1.0.
C22_ShortHistoryIsNormal ==
    (vol_op.op = "get_adjusted_grid_params" /\ vol_op.df.rows < 15) =>
        /\ vol_op.volatility_ratio.num = 0
        /\ vol_op.regime = "normal"
        /\ vol_op.adjusted_spacing_pct = 100 * 50
        /\ vol_op.adjusted_position_size = 100 * 1000

----------------------------------------------------------------------------
(* Ladder parameters that make no sense, checked under SpecGrid *)

\* C23: a ladder generation with center_price <= 0 or spacing_pct <= 0 ends in
\* an error and produces no ladder: nothing is returned and grid_levels stays
\* empty.
C23_InvalidParametersRejected ==
    (gen_call.fn # "none" /\ (gen_call.center <= 0 \/ gen_call.spacing <= 0)) =>
        /\ gen_call.raised
        /\ gen_call.returned = <<>>
        /\ grid_levels = <<>>

----------------------------------------------------------------------------
(* Saving the state: StrategyState.save_state and                          *)
(* GridStateManager._save_json_file, one step per file system call, with   *)
(* the process killed between any two of them                              *)

MaxSaves == 4

\* save_state: open(self.state_file, "w") truncates the state file.
SaveStateOpen ==
    /\ program = "strategy_state"
    /\ saver.pc = "idle"
    /\ saver.saves < MaxSaves
    /\ saver' = [saver EXCEPT !.pc = "dumping", !.data = saver.saves + 1,
                              !.saves = saver.saves + 1, !.returned = "none"]
    /\ disk' = [disk EXCEPT !.file = -(saver.saves + 1)]
    /\ UNCHANGED <<program, riskVars, gridVars, tradeVars, cycleVars, regen_op, volVars>>

\* save_state: json.dump writes the document and the with statement closes
\* the file, or json.dump raises part-way (a value JSON cannot encode, a full
\* disk) and the exception leaves save_state.
SaveStateDump(ok) ==
    /\ program = "strategy_state"
    /\ saver.pc = "dumping"
    /\ saver' = [saver EXCEPT !.pc = "idle",
                              !.returned = IF ok THEN "None" ELSE "raised"]
    /\ disk' = [disk EXCEPT !.file = IF ok THEN saver.data ELSE @]
    /\ UNCHANGED <<program, riskVars, gridVars, tradeVars, cycleVars, regen_op, volVars>>

\* _save_json_file: _create_backup copies an existing state file, then
\* open(temp_file, 'w') creates or truncates the .tmp file.
SaveJsonOpenTemp ==
    /\ program = "grid_state_manager"
    /\ saver.pc = "idle"
    /\ saver.saves < MaxSaves
    /\ saver' = [saver EXCEPT !.pc = "dumping", !.data = saver.saves + 1,
                              !.saves = saver.saves + 1, !.returned = "none"]
    /\ disk' = [disk EXCEPT !.backup = IF disk.file # 0 THEN disk.file ELSE @,
                            !.tmp = -(saver.saves + 1)]
    /\ UNCHANGED <<program, riskVars, gridVars, tradeVars, cycleVars, regen_op, volVars>>

\* _save_json_file: json.dump into the .tmp file; its exception is caught and
\* False returned.
SaveJsonDump(ok) ==
    /\ program = "grid_state_manager"
    /\ saver.pc = "dumping"
    /\ saver' = [saver EXCEPT !.pc = IF ok THEN "renaming" ELSE "idle",
                              !.returned = IF ok THEN "none" ELSE "False"]
    /\ disk' = [disk EXCEPT !.tmp = IF ok THEN saver.data ELSE @]
    /\ UNCHANGED <<program, riskVars, gridVars, tradeVars, cycleVars, regen_op, volVars>>

\* _save_json_file: os.rename(temp_file, file_path) puts the .tmp file in the
\* state file's place in one step, or fails and leaves both as they were.
SaveJsonRename(ok) ==
    /\ program = "grid_state_manager"
    /\ saver.pc = "renaming"
    /\ saver' = [saver EXCEPT !.pc = "idle",
                              !.returned = IF ok THEN "True" ELSE "False"]
    /\ disk' = IF ok THEN [disk EXCEPT !.file = disk.tmp, !.tmp = 0] ELSE disk
    /\ UNCHANGED <<program, riskVars, gridVars, tradeVars, cycleVars, regen_op, volVars>>

\* The process is killed in the middle of a save and started again; the files
\* stay as they are.
KilledWhileSaving ==
    /\ program \in {"strategy_state", "grid_state_manager"}
    /\ saver.pc # "idle"
    /\ saver' = [saver EXCEPT !.pc = "idle", !.returned = "killed"]
    /\ UNCHANGED <<program, riskVars, gridVars, tradeVars, cycleVars, regen_op, volVars,
                   disk>>

\* load_state and _load_json_file: the document of an existing state file, or
\* nothing (0) when there is no file or json.load fails on it.
LoadState ==
    /\ program \in {"strategy_state", "grid_state_manager"}
    /\ saver.pc = "idle"
    /\ saver' = [saver EXCEPT !.loaded = IF disk.file > 0 THEN disk.file ELSE 0]
    /\ UNCHANGED <<program, riskVars, gridVars, tradeVars, cycleVars, regen_op, volVars,
                   disk>>

InitPersist ==
    /\ program \in {"strategy_state", "grid_state_manager"}
    /\ today = 0
    /\ risk = RiskManager_init(0, TRUE)
    /\ risk_op = NoRiskOp
    /\ losing_calls = 0
    /\ n_recorded = 0
    /\ params = [center |-> 0, spacing |-> 0, levels |-> 0, account |-> NoAccount]
    /\ grid_levels = <<>>
    /\ total_capital = 0
    /\ gen_call = NoGenCall
    /\ pm = NoPosition
    /\ bought_levels = {}
    /\ sold_levels = {}
    /\ position = 0
    /\ tick = NoTick
    /\ exited = FALSE
    /\ n_buy_fills = 0
    /\ n_sell_fills = 0
    /\ gs = GridStrategy_init
    /\ ct = CycleTracker_init
    /\ ct_op = NoCycleOp
    /\ regen_op = NoRegenOp
    /\ volatility_history = <<>>
    /\ vol_op = NoVolOp
    /\ disk = NoFiles
    /\ saver = NoSaver

NextPersist ==
    \/ SaveStateOpen
    \/ \E ok \in BOOLEAN : SaveStateDump(ok)
    \/ SaveJsonOpenTemp
    \/ \E ok \in BOOLEAN : SaveJsonDump(ok)
    \/ \E ok \in BOOLEAN : SaveJsonRename(ok)
    \/ KilledWhileSaving
    \/ LoadState

SpecPersist == InitPersist /\ [][NextPersist]_vars

\* C24: whether a save fails, is interrupted or succeeds, the state file never
\* holds a partially written document: it is absent or holds a complete one.
C24_AtomicSave ==
    disk.file >= 0

----------------------------------------------------------------------------
(* Orders that fail and positions that are too small, in OrderExecutor *)

\* The levels of a call's fills on one side.
FilledLevels(fills, side) ==
    {fills[i].level : i \in {j \in 1..Len(fills) : fills[j].side = side}}

C26_InsufficientPositionSkips ==
    [][(tick'.op = "execute_sell_orders" /\ tick' # tick) =>
          /\ tick'.skipped \cap FilledLevels(tick'.fills, "SELL") = {}
          /\ tick'.skipped \cap tick'.failed = {}
          /\ tick'.skipped \cap {pair[1] : pair \in sold_levels' \ sold_levels} = {}
          /\ pm'.quantity = pm.quantity
                               - base_order_quantity * SellFills(tick'.fills)
          /\ tick'.skipped # {} => insufficient_position(pm')
          /\ ~exited' =>
                 \A i \in 1..Len(grid_levels) :
                     sell_ready(grid_levels[i], tick'.price, sold_levels)
                         => grid_levels[i].level
                                \in tick'.skipped \cup tick'.failed
                                    \cup FilledLevels(tick'.fills, "SELL")
      ]_vars

\* A call that sold the whole position at one level and passed over the next.
C26_Witness ==
    /\ tick.op = "execute_sell_orders"
    /\ tick.fills # <<>>
    /\ tick.skipped # {}

\* C27: for every sell fill of a call of execute_sell_orders one pnl is passed
\* to record_trade_result, and it is (sell price - buy price of a bought level
\* of the ladder) * quantity - fees, where no fee calculator is attached and the
\* fees are 0.
C27_RealizedPnl ==
    [][(tick'.op = "execute_sell_orders" /\ tick' # tick) =>
          LET sells == SelectSeq(tick'.fills, LAMBDA f : f.side = "SELL")
          IN  /\ Len(tick'.recorded) = Len(sells)
              /\ \A i \in 1..Len(sells) :
                     i <= Len(tick'.recorded) =>
                         \E j \in 1..Len(grid_levels) :
                             /\ grid_levels[j].level \in bought_levels
                             /\ tick'.recorded[i]
                                    = (sells[i].price - grid_levels[j].price)
                                          * base_order_quantity
      ]_vars

----------------------------------------------------------------------------
(* The counters of RiskManager, checked under SpecRisk *)

\* C28: a record_trade_result(pnl) call adds pnl to daily_pnl[today]; with
\* pnl < 0 it adds 1 to consecutive_losses and |pnl| to current_drawdown; with
\* pnl >= 0 it sets consecutive_losses to 0 and takes pnl off current_drawdown,
\* not going below 0; and both counters are never negative.
C28_RiskCountersUpdate ==
    [][n_recorded' = n_recorded + 1 =>
          LET recorded_pnl == risk_op'.pnl
          IN  /\ risk_op'.op = "record_trade_result"
              /\ risk'.daily_pnl[today] = risk.daily_pnl[today] + recorded_pnl
              /\ recorded_pnl < 0 =>
                     /\ risk'.consecutive_losses = risk.consecutive_losses + 1
                     /\ risk'.current_drawdown = risk.current_drawdown - recorded_pnl
              /\ recorded_pnl >= 0 =>
                     /\ risk'.consecutive_losses = 0
                     /\ risk'.current_drawdown =
                            IF risk.current_drawdown > recorded_pnl
                            THEN risk.current_drawdown - recorded_pnl ELSE 0
              /\ risk'.consecutive_losses >= 0
              /\ risk'.current_drawdown >= 0
      ]_vars

\* A profit of 300 recorded on a drawdown of 100, which stops at 0.
C28_Witness ==
    /\ risk_op.op = "record_trade_result"
    /\ risk_op.pnl = 300
    /\ risk_op.losing_before = 1
    /\ risk.daily_pnl[today] = 200
    /\ risk.current_drawdown = 0
    /\ risk.consecutive_losses = 0

\* C29: check_trade_allowed answers true exactly when no emergency stop is
\* set, consecutive_losses is below max_consecutive_losses and the day's loss
\* is below 80% of the daily loss limit, so a loss of 80% of the limit or more
\* alone makes it answer false; and the call leaves consecutive_losses,
\* current_drawdown, daily_pnl and the emergency flag as they were.
C29_EarlyWarning ==
    [][(risk_op'.op = "check_trade_allowed" /\ risk_op' # risk_op) =>
          LET loss == -risk.daily_pnl[risk_op'.date]
          IN  /\ risk_op'.allowed =
                     (/\ ~risk.emergency_stop_triggered
                      /\ risk.consecutive_losses < max_consecutive_losses
                      /\ 5 * loss < 4 * daily_loss_limit)
              /\ risk'.consecutive_losses = risk.consecutive_losses
              /\ risk'.current_drawdown = risk.current_drawdown
              /\ risk'.daily_pnl = risk.daily_pnl
              /\ risk'.emergency_stop_triggered = risk.emergency_stop_triggered
      ]_vars

\* Trading refused on the early warning alone: a loss from 80% of the limit
\* up, below the limit, with no emergency stop and a short losing streak.
C29_Witness ==
    /\ risk_op.op = "check_trade_allowed"
    /\ ~risk_op.allowed
    /\ ~risk.emergency_stop_triggered
    /\ risk.consecutive_losses < max_consecutive_losses
    /\ -risk.daily_pnl[risk_op.date] < daily_loss_limit

----------------------------------------------------------------------------
(* The pairing of bought levels with sell targets in GridStrategy *)

\* C30: every sale of GridStrategy.execute_grid_trades sells a bought level b at
\* the lowest level of the ladder of that tick (the new one after a
\* regeneration) that lies strictly above b, and only when the price is at
\* least that target less the tolerance of 0.1% of the center and the pair
\* (b, target) is not yet in sold_levels.
C30_SellPairing ==
    [][(tick'.op = "execute_grid_trades" /\ tick' # tick) =>
          \A i \in 1..Len(tick'.fills) :
              tick'.fills[i].side = "SELL" =>
                  LET b == tick'.fills[i].level
                      target == tick'.fills[i].price
                      ladder == {grid_levels'[k] : k \in 1..Len(grid_levels')}
                  IN  /\ b \in bought_levels \cup FilledLevels(tick'.fills, "BUY")
                      /\ target \in ladder
                      /\ target > b
                      /\ \A l \in ladder : l > b => target <= l
                      /\ 1000 * tick'.price >= 1000 * target - gs'.center_price
                      /\ <<b, target>> \notin sold_levels
                      /\ <<b, target>> \in sold_levels'
      ]_vars

\* A level bought on an earlier ladder sold at a level of the regenerated one.
C30_Witness ==
    /\ tick.op = "execute_grid_trades"
    /\ \E i \in 1..Len(tick.fills) :
           /\ tick.fills[i].side = "SELL"
           /\ \A k \in 1..Len(grid_levels) : grid_levels[k] # tick.fills[i].level
           /\ \E k \in 1..Len(grid_levels) :
                  grid_levels[k] > tick.fills[i].price

----------------------------------------------------------------------------
(* The partial-sell limit of GridStrategy *)

\* The bought levels of GridStrategy whose sell target on the ladder is within
\* the tolerance of the price and not yet sold as a pair.
DueForSale(bought, sold, levels, center, price) ==
    {b \in bought :
        LET higher == {i \in 1..Len(levels) : levels[i] > b}
        IN  /\ higher # {}
            /\ within_sell_tolerance(price, higher_levels_first(levels, higher), center)
            /\ <<b, higher_levels_first(levels, higher)>> \notin sold}

\* C31: one call of GridStrategy.execute_grid_trades makes at most one sell
\* fill: sold_levels gains at most one pair, bought_levels loses at most one
\* level and position falls by at most order_qty, however many bought levels
\* have reached their target.
C31_OneSellPerCall ==
    [][(tick'.op = "execute_grid_trades" /\ tick' # tick) =>
          /\ Cardinality({i \in 1..Len(tick'.fills) :
                              tick'.fills[i].side = "SELL"}) <= max_sells
          /\ Cardinality(sold_levels' \ sold_levels) <= 1
          /\ Cardinality(bought_levels \ bought_levels') <= 1
          /\ position' >= position - base_order_quantity
      ]_vars

\* A call that sold one level and left another one that had reached its target.
C31_Witness ==
    /\ tick.op = "execute_grid_trades"
    /\ \E i \in 1..Len(tick.fills) : tick.fills[i].side = "SELL"
    /\ DueForSale(bought_levels, sold_levels, grid_levels, gs.center_price,
                  tick.price) # {}

----------------------------------------------------------------------------
(* GridStrategyController.polling_loop from a cold start *)

\* generate_grid called by the owner of the controller before it starts the
\* loop; polling_loop only returns on a KeyboardInterrupt.
GenerateGridBeforeLoop(center, account) ==
    /\ tick.op = "none"
    /\ ControllerGenerateGrid(center, account)

InitColdStart ==
    /\ Init
    /\ program = "controller"

NextColdStart ==
    \/ \E c \in ControllerCenters, a \in AccountOutcomes : GenerateGridBeforeLoop(c, a)
    \/ \E price \in FetchedPrices, o \in [{"BUY", "SELL"} -> OrderOutcomes],
          data \in MarketData :
          PollingCycle(price, o, data)

\* The loop sleeps and polls again for as long as the process runs.
SpecColdStart ==
    /\ InitColdStart
    /\ [][NextColdStart]_vars
    /\ WF_vars(\E price \in FetchedPrices, o \in [{"BUY", "SELL"} -> OrderOutcomes],
                  data \in MarketData :
                  PollingCycle(price, o, data))

\* C32: when GridStrategyController.polling_loop has started with an empty
\* ladder, a later pass of the loop generates a ladder that is not empty.
C32_ColdStartYieldsLadder ==
    (tick.op = "polling_loop" /\ grid_levels = <<>>) ~> (grid_levels # <<>>)

----------------------------------------------------------------------------
(* The saved grid state and a controller built from it *)

MaxRestarts == 1
MaxGridSaves == 2

\* A Python list of the items of a pair, as against the tuple <<level, price>>.
PyList(items) == [list |-> items]

\* list(a set): its members in the order the iteration happens to yield.
Listings(S) ==
    {s \in [1..Cardinality(S) -> S] : {s[i] : i \in 1..Cardinality(S)} = S}

\* A JSON file: absent, or a document.  enveloped tells whether the entries
\* stand under the key 'data' of the timestamp / version envelope; the pairs of
\* sold_levels are arrays in the file.
NoDocument ==
    [exists |-> FALSE, enveloped |-> FALSE, grid_levels |-> <<>>,
     bought_levels |-> <<>>, sold_levels |-> <<>>]

\* The entries save_grid_state puts into state_data and update_grid_state puts
\* into self.state: the ladder, list(bought_levels) and
\* [list(pair) for pair in sold_levels].
grid_state_data(levels, bought_list, sold_list) ==
    [grid_levels |-> levels, bought_levels |-> bought_list,
     sold_levels |-> [i \in 1..Len(sold_list) |-> PyList(sold_list[i])]]

\* json.dump of the entries, and json.load of a document: lists are written
\* as arrays and arrays are read as lists.
json_dump(data, enveloped) ==
    [exists |-> TRUE, enveloped |-> enveloped, grid_levels |-> data.grid_levels,
     bought_levels |-> data.bought_levels,
     sold_levels |-> [i \in 1..Len(data.sold_levels) |->
                          [array |-> data.sold_levels[i].list]]]

json_load(doc) ==
    [enveloped |-> doc.enveloped, grid_levels |-> doc.grid_levels,
     bought_levels |-> doc.bought_levels,
     sold_levels |-> [i \in 1..Len(doc.sold_levels) |->
                          PyList(doc.sold_levels[i].array)]]

\* A load that hands out the envelope itself, which has none of the entries.
load_json_file_as_is(doc) ==
    [json_load(NoDocument) EXCEPT !.enveloped = doc.enveloped]

\* GridStateManager._load_json_file: content['data'] of a document with the
\* envelope, the content itself of one without.
load_json_file(doc) == json_load(doc)

\* set(state_data['bought_levels']) and
\* set(tuple(pair) for pair in state_data['sold_levels'])
set_of_levels(bought_list) == {bought_list[i] : i \in 1..Len(bought_list)}
set_of_pairs(sold_list) == {sold_list[i].list : i \in 1..Len(sold_list)}

\* What a save wrote and what a load returned.
NoGridState == [saved |-> FALSE, grid_levels |-> <<>>, bought_levels |-> {},
                sold_levels |-> {}, position |-> 0]
Memory ==
    [saved |-> TRUE, grid_levels |-> grid_levels, bought_levels |-> bought_levels,
     sold_levels |-> sold_levels, position |-> position]

\* GridStateManager.save_grid_state with the controller's ladder and sets; ok
\* tells whether _save_json_file got through its try statement.
SaveGridState(ok) ==
    /\ program = "controller"
    /\ saver.store = "grid_state_manager"
    /\ saver.saves < MaxGridSaves
    /\ \E bought_list \in Listings(bought_levels), sold_list \in Listings(sold_levels) :
       disk' = IF ok
               THEN [disk EXCEPT !.grid_state_file =
                        json_dump(grid_state_data(grid_levels, bought_list, sold_list),
                                  TRUE)]
               ELSE disk
    /\ saver' = [saver EXCEPT !.saves = @ + 1,
                              !.grid_state = IF ok THEN Memory ELSE @]
    /\ tick' = [NoTick EXCEPT !.op = IF ok THEN "save_grid_state"
                                     ELSE "save_grid_state failed"]
    /\ UNCHANGED <<program, cycleVars, regen_op, volVars, riskVars, gridVars, pm,
                   bought_levels, sold_levels, position, exited, n_buy_fills,
                   n_sell_fills, gs>>

\* GridStateManager.load_grid_state.
LoadGridState ==
    /\ program = "controller"
    /\ saver.store = "grid_state_manager"
    /\ disk.grid_state_file.exists
    /\ LET state_data == load_json_file(disk.grid_state_file)
       IN  saver' = [saver EXCEPT !.loaded =
                        [saved |-> TRUE, grid_levels |-> state_data.grid_levels,
                         bought_levels |-> set_of_levels(state_data.bought_levels),
                         sold_levels |-> set_of_pairs(state_data.sold_levels),
                         position |-> 0]]
    /\ tick' = [NoTick EXCEPT !.op = "load_grid_state"]
    /\ UNCHANGED <<program, cycleVars, regen_op, volVars, riskVars, gridVars, pm,
                   bought_levels, sold_levels, position, exited, n_buy_fills,
                   n_sell_fills, gs, disk>>

\* StrategyState.update_grid_state as the controller calls it, save_state
\* included.
UpdateGridState ==
    /\ program = "controller"
    /\ saver.store = "strategy_state"
    /\ saver.saves < MaxGridSaves
    /\ \E bought_list \in Listings(bought_levels), sold_list \in Listings(sold_levels) :
       disk' = [disk EXCEPT !.state_file =
                   json_dump(grid_state_data(grid_levels, bought_list, sold_list),
                             FALSE)]
    /\ saver' = [saver EXCEPT !.saves = @ + 1, !.state = Memory]
    /\ tick' = [NoTick EXCEPT !.op = "update_grid_state"]
    /\ UNCHANGED <<program, cycleVars, regen_op, volVars, riskVars, gridVars, pm,
                   bought_levels, sold_levels, position, exited, n_buy_fills,
                   n_sell_fills, gs>>

\* A new StrategyState loads the state file and a new GridStrategyController is
\* built on it; the PositionManager it is given is the one in use or a new one.
Restart(new_pm) ==
    /\ program = "controller"
    /\ saver.store = "strategy_state"
    /\ saver.restarts < MaxRestarts
    /\ LET st == IF disk.state_file.exists THEN json_load(disk.state_file)
                 ELSE json_load(NoDocument)
       IN  /\ grid_levels' = st.grid_levels
           /\ bought_levels' = set_of_levels(st.bought_levels)
           /\ sold_levels' = set_of_pairs(st.sold_levels)
    /\ position' = 0
    /\ total_capital' = 0
    /\ pm' = IF new_pm THEN NoPosition ELSE pm
    /\ ct' = CycleTracker_init
    /\ saver' = [saver EXCEPT !.restarts = @ + 1]
    /\ tick' = [NoTick EXCEPT !.op = "restart"]
    /\ UNCHANGED <<program, ct_op, regen_op, volVars, riskVars, params, gen_call,
                   exited, n_buy_fills, n_sell_fills, gs, disk>>

InitRestart ==
    /\ program = "controller"
    /\ today = 0
    /\ risk = RiskManager_init(0, TRUE)
    /\ risk_op = NoRiskOp
    /\ losing_calls = 0
    /\ n_recorded = 0
    /\ params = [center |-> 0, spacing |-> 0, levels |-> 0, account |-> NoAccount]
    /\ grid_levels = <<>>
    /\ total_capital = 0
    /\ gen_call = NoGenCall
    /\ pm = NoPosition
    /\ bought_levels = {}
    /\ sold_levels = {}
    /\ position = 0
    /\ tick = NoTick
    /\ exited = FALSE
    /\ n_buy_fills = 0
    /\ n_sell_fills = 0
    /\ gs = GridStrategy_init
    /\ ct = CycleTracker_init
    /\ ct_op = NoCycleOp
    /\ regen_op = NoRegenOp
    /\ volatility_history = <<>>
    /\ vol_op = NoVolOp
    /\ disk = [state_file |-> NoDocument, grid_state_file |-> NoDocument]
    /\ \E store \in {"strategy_state", "grid_state_manager"} :
           saver = [store |-> store, saves |-> 0, restarts |-> 0,
                    state |-> NoGridState, grid_state |-> NoGridState,
                    loaded |-> NoGridState]

\* The run keeps its state with a StrategyState or with a GridStateManager
\* (saver.store).  One center, an account with funds, and a price below the
\* BUY levels and one at the first SELL level.
RestartCenters == {20000}
RestartAccounts == {[ok |-> TRUE, free |-> 10000]}
RestartPrices == {18988, 20100}

NextRestart ==
    \/ \E c \in RestartCenters, a \in RestartAccounts : ControllerGenerateGrid(c, a)
    \/ \E price \in RestartPrices, o \in [{"BUY", "SELL"} -> OrderOutcomes] :
          PollingCycle(price, o, NoData)
    \/ \E ok \in BOOLEAN : SaveGridState(ok)
    \/ LoadGridState
    \/ UpdateGridState
    \/ \E new_pm \in BOOLEAN : Restart(new_pm)

SpecRestart == InitRestart /\ [][NextRestart]_vars

\* C33: the ladder, bought_levels and the (level, price) pairs of sold_levels
\* that load_grid_state returns are those of the last save_grid_state that got
\* through, and those a controller is built with are those of the last
\* update_grid_state.
C33_RoundTrip ==
    [][/\ (tick'.op = "load_grid_state" /\ tick # tick') =>
              /\ saver'.loaded.grid_levels = saver.grid_state.grid_levels
              /\ saver'.loaded.bought_levels = saver.grid_state.bought_levels
              /\ saver'.loaded.sold_levels = saver.grid_state.sold_levels
       /\ (saver'.restarts > saver.restarts /\ saver.state.saved) =>
              /\ grid_levels' = saver.state.grid_levels
              /\ bought_levels' = saver.state.bought_levels
              /\ sold_levels' = saver.state.sold_levels
      ]_vars

\* A controller built after a save with two bought levels and a sold pair.
C33_Witness ==
    /\ saver.restarts > 0
    /\ saver.state.saved
    /\ Cardinality(saver.state.bought_levels) = 2
    /\ saver.state.sold_levels # {}
    /\ tick.op = "restart"
    /\ Cardinality(bought_levels) = 2
    /\ sold_levels # {}

\* C34: a controller built from the saved state has the position the
\* controller had when the state was saved.
C34_RestartKeepsPosition ==
    [][(saver'.restarts > saver.restarts /\ saver.state.saved) =>
           position' = saver.state.position]_vars

----------------------------------------------------------------------------
(* The position of GridStrategy and its open levels *)

\* C35: in GridStrategy, after any sequence of execute_grid_trades calls and
\* grid regenerations, position is order_qty times the number of entries of
\* bought_levels.
C35_PositionMatchesOpenLevels ==
    program = "grid_strategy" =>
        position = base_order_quantity * Cardinality(bought_levels)

\* A level is held after a sale, on a ladder that no longer has the level.
C35_Witness ==
    /\ program = "grid_strategy"
    /\ tick.op = "execute_grid_trades"
    /\ sold_levels # {}
    /\ \E b \in bought_levels : \A k \in 1..Len(grid_levels) : grid_levels[k] # b
    /\ position > 0

----------------------------------------------------------------------------
(* GridStrategy.execute_grid_trades called tick after tick on one ladder *)

SellOffPrices == {8000, 8600, 9200, 9600, 10400, 10800}

\* In simulation mode every order comes back FILLED.
SimulatedOutcomes == [side \in {"BUY", "SELL"} |-> "FILLED"]

\* execute_grid_trades(price, simulation_mode=True)
SimulatedGridTrades(price) ==
    /\ program = "grid_strategy"
    /\ LET st == execute_grid_trades(LoopState, grid_levels, gs.center_price, price,
                                     SimulatedOutcomes)
       IN  /\ bought_levels' = st.bought
           /\ sold_levels' = st.sold
           /\ position' = st.position
           /\ tick' = [NoTick EXCEPT !.op = "execute_grid_trades", !.price = price,
                                     !.bought_before = bought_levels,
                                     !.fills = st.fills]
    /\ UNCHANGED <<program, cycleVars, regen_op, volVars, fileVars, riskVars, gridVars,
                   pm, exited, n_buy_fills, n_sell_fills, gs>>

\* The ladder start_trading generated for the regime it detected.
InitSellOff ==
    /\ program = "grid_strategy"
    /\ today = 0
    /\ risk = RiskManager_init(0, TRUE)
    /\ risk_op = NoRiskOp
    /\ losing_calls = 0
    /\ n_recorded = 0
    /\ params = [center |-> 0, spacing |-> 0, levels |-> 0, account |-> NoAccount]
    /\ \E c \in GridCenters, regime \in Regimes, x \in RsiExtremes :
          LET ap == adjust_grid(c, regime, x)
          IN  /\ grid_levels = GridStrategy_generate_grid(ap)
              /\ gs = [GridStrategy_init EXCEPT !.center_price = ap.center_price,
                                                !.current_regime = regime,
                                                !.grid_generated = TRUE]
    /\ total_capital = 0
    /\ gen_call = NoGenCall
    /\ pm = NoPosition
    /\ bought_levels = {}
    /\ sold_levels = {}
    /\ position = 0
    /\ tick = NoTick
    /\ exited = FALSE
    /\ n_buy_fills = 0
    /\ n_sell_fills = 0
    /\ ct = CycleTracker_init
    /\ ct_op = NoCycleOp
    /\ regen_op = NoRegenOp
    /\ volatility_history = <<>>
    /\ vol_op = NoVolOp
    /\ disk = NoFiles
    /\ saver = NoSaver

NextSellOff == \E price \in SellOffPrices : SimulatedGridTrades(price)

SpecSellOff == InitSellOff /\ [][NextSellOff]_vars

\* The price is at or above the sell target, less the tolerance, of every one
\* of the bought levels.
TargetsReached(bought, price) ==
    \A b \in bought :
        LET higher == {i \in 1..Len(grid_levels) : grid_levels[i] > b}
        IN  /\ higher # {}
            /\ within_sell_tolerance(price, higher_levels_first(grid_levels, higher),
                                     gs.center_price)

\* C36: while the price stays at or above the sell target of every bought
\* level, bought_levels is empty and position is 0 after finitely many ticks,
\* also for a level bought again after a completed round trip on the same
\* ladder: a call at such a price that finds levels bought, and leaves none
\* bought below its target, has sold one of them.  (A call that sells none
\* leaves bought_levels, sold_levels and the ladder as they were, so no later
\* call at such a price sells one either.)
C36_OpenLevelsEventuallySold ==
    [][(/\ tick'.op = "execute_grid_trades"
        /\ tick' # tick
        /\ bought_levels # {}
        /\ TargetsReached(bought_levels, tick'.price)
        /\ TargetsReached(bought_levels', tick'.price)) =>
           /\ Cardinality(bought_levels') < Cardinality(bought_levels)
           /\ position' < position
      ]_vars

----------------------------------------------------------------------------
(* sold_levels of OrderExecutor and the sales made *)

\* C38: however a call of OrderExecutor.execute_sell_orders ends, every sale
\* of the call that reduced the PositionManager's position has its
\* (level, price) pair in sold_levels.
C38_SalesAreInSoldLevels ==
    [][(tick'.op = "execute_sell_orders" /\ tick' # tick) =>
          \A i \in 1..Len(tick'.fills) :
              tick'.fills[i].side = "SELL" =>
                  <<tick'.fills[i].level, tick'.fills[i].price>> \in sold_levels'
      ]_vars

----------------------------------------------------------------------------
(* An OrderExecutor given one ladder for all its calls *)

\* The owner draws the ladder once.
DrawLadder(center) ==
    /\ grid_levels = <<>>
    /\ RegenerateLadder(center)

InitLadder ==
    /\ Init
    /\ program = "order_executor"

NextLadder ==
    \/ \E c \in TradeCenters : DrawLadder(c)
    \/ \E price \in TickPrices, o \in [BuyIds -> OrderOutcomes] :
          ExecuteBuyOrders(price, o)
    \/ \E price \in TickPrices, o \in [SellIds -> OrderOutcomes],
          exc \in StopExceptions :
          ExecuteSellOrders(price, o, exc)

SpecLadder == InitLadder /\ [][NextLadder]_vars

\* The levels of one side of the ladder.
LadderLevels(side) ==
    {grid_levels[k].level : k \in {j \in 1..Len(grid_levels) : grid_levels[j].side = side}}

====
